---- MODULE Spec2Model ----
(***************************************************************************)
(* Siteimprove DCI score tracker: the incremental sweep (server with the   *)
(* /run-now route and the cron scheduler), the rate-limited fetcher and    *)
(* the historical target-score backfill, as state machines over the        *)
(* ada_scores table.                                                       *)
(*                                                                         *)
(* Dates are day numbers (day d stands for one calendar date, d + 1 for    *)
(* the next one).  A timestamp "YYYY-MM-DD HH:MM:SS" is [day, hour].       *)
(* Every await of the code (an HTTP request, a database query) is one step *)
(* of the model: the step is the completion of the awaited call followed   *)
(* by the code that runs up to the next await.                             *)
(***************************************************************************)
EXTENDS Integers, Sequences, FiniteSets, Bags, TLC

\* ------------------------------------------------------------------ bounds
\* sites in the upstream directory
NumSites == 2
\* handler invocations (scheduled runs and /run-now requests) in a behaviour
MaxRuns == 2
\* cron ticks in a behaviour
MaxTicks == 2
\* events of the environment in a behaviour: a midnight, a failing database
\* call, an UPDATE of a backfill that runs beside the server
MaxEvents == 1
\* calendar days of a backfill range
MaxDay == 2

\* ------------------------------------------------------- program constants
\* let siteTarget = null
NULL == -1
\* parseFloat / parseInt of a non-numeric payload
NaN == -2

Sites == 1..NumSites
Runners == {"cron", "manual"}

VARIABLES
    clock,          \* the current UTC calendar day (new Date().toISOString())
    ada_scores,     \* the score table: a set of rows
    error_logs,     \* the error_logs table: a bag of [site_id, level]
    jobRunning,     \* the scheduler's single-flight flag
    consoleLog,     \* the scheduler's lines of the log stream
    httpLog,        \* the status codes sent by /run-now
    run,            \* per handler: the state of its sweep
    runsStarted,    \* number of handler invocations that passed the guard
    ticks,          \* number of cron ticks so far
    events,         \* number of events of the environment so far
    finished,       \* the statistics returned by the completed sweeps, in order
    directory,      \* upstream: the site directory response
    overview,       \* upstream: per site, the dci/overview response
    history,        \* upstream: per site, the site_target/history response
    a11y,           \* upstream: per site, the a11y object of the overview
    fetch,          \* fetchWithExponentialBackoff: the state of the call
    bf,             \* the backfill process: its position and its locals
    ada_scores_backup,  \* the table the legacy backfill writes
    error_log,      \* the error_log table of the legacy backfill
    tz,             \* the time zone of the backfill process
    approved,       \* the approved list of the backfill: a set of sites
    app,            \* the first server (app.js): the state of its /run-now
    appLog,         \* the responses sent by /run-now of the first server
    rb,             \* /run-batch: the requests, the processes, the responses
    bulk,           \* the bulk server (bulkinsert.js): the state of its sweep
    patches         \* a list of backfill UPDATEs applied to the table, twice over

vars == <<clock, ada_scores, error_logs, jobRunning, consoleLog, httpLog, run,
          runsStarted, ticks, events, finished, directory,
          overview, history, fetch, bf, ada_scores_backup, error_log, tz,
          approved, app, appLog, rb, a11y, bulk, patches>>

upstream == <<directory, overview, history, a11y>>

\* the variables of the server's handlers
server == <<jobRunning, consoleLog, httpLog, run, runsStarted, ticks, finished,
            error_logs>>

\* the variable of the fetcher
fetcher == <<fetch>>

\* the variables of the backfill
backfill == <<bf, ada_scores_backup, error_log, tz, approved>>

\* the variables of /run-now of the first server and of /run-batch
handlers == <<app, appLog, rb, bulk, patches>>

\* ------------------------------------------------------------------ store

\* CREATE TABLE ada_scores (... CONSTRAINT unique_site_date UNIQUE (sid, date))
HasRow(table, sid, date) ==
    \E row \in table : row.sid = sid /\ row.date = date

NewRow(table, rec, who) ==
    [id |-> Cardinality(table) + 1, sid |-> rec.sid, date |-> rec.date,
     ada_score_total |-> rec.ada_score_total,
     site_target_score |-> rec.site_target_score, by |-> who]

\* A mutant: the INSERT without its ON CONFLICT clause on a table without
\* the unique constraint.
InsertAlways(table, rec, who) ==
    table \cup {NewRow(table, rec, who)}

\* INSERT INTO ada_scores ... ON CONFLICT (sid, date) DO NOTHING
InsertOnConflictDoNothing(table, rec, who) ==
    IF HasRow(table, rec.sid, rec.date)
    THEN table
    ELSE table \cup {NewRow(table, rec, who)}

\* A mutant: the statement reports a row on a conflict too (as an upsert
\* would).
InsertRowCountUpsert(table, rec) == 1

\* result.rowCount of the INSERT
InsertRowCount(table, rec) ==
    IF HasRow(table, rec.sid, rec.date) THEN 0 ELSE 1

\* UPDATE ada_scores_backup SET site_target_score = $1
\*  WHERE sid = $2 AND date = $3
LegacyUpdateTarget(table, sid, date, score) ==
    {IF row.sid = sid /\ row.date = date
     THEN [row EXCEPT !.site_target_score = score]
     ELSE row : row \in table}

\* A mutant: an upsert, which creates the row the UPDATE does not find.
PatchTargetUpsert(table, sid, date, score) ==
    IF \E row \in table : row.sid = sid /\ row.date = date
    THEN {IF row.sid = sid /\ row.date = date /\ row.site_target_score = NULL
          THEN [row EXCEPT !.site_target_score = score]
          ELSE row : row \in table}
    ELSE table \cup {[id |-> Cardinality(table) + 1, sid |-> sid, date |-> date,
                       ada_score_total |-> NULL, site_target_score |-> score,
                       by |-> "backfill"]}

\* A mutant: the UPDATE without "AND site_target_score IS NULL".
PatchTargetAlways(table, sid, date, score) ==
    {IF row.sid = sid /\ row.date = date
     THEN [row EXCEPT !.site_target_score = score]
     ELSE row : row \in table}

\* UPDATE ada_scores SET site_target_score = $1
\*  WHERE sid = $2 AND date = $3 AND site_target_score IS NULL
PatchTargetIfMissing(table, sid, date, score) ==
    {IF row.sid = sid /\ row.date = date /\ row.site_target_score = NULL
     THEN [row EXCEPT !.site_target_score = score]
     ELSE row : row \in table}

\* rowCount of that UPDATE
PatchRowCount(table, sid, date) ==
    Cardinality({row \in table :
        row.sid = sid /\ row.date = date /\ row.site_target_score = NULL})

\* logErrorToDatabase: the INSERT into error_logs; its own failure is
\* caught and only printed.
LogErrorToDatabase(logs, siteId, level, ok) ==
    IF ok
    THEN logs (+) SetToBag({[site_id |-> siteId, level |-> level]})
    ELSE logs

\* ------------------------------------------------- existing-record index

\* `${record.sid}-${record.date}` with record.date the ISO date string
RecordKey(sid, date) == <<sid, "iso", date>>

\* `${row.sid}-${row.date}` with row.date the Date object the driver
\* returns for a DATE column: its string form is the long local form
\* ("Sun Jun 15 2025 00:00:00 GMT..."), not the ISO date.
RowKey(row) == <<row.sid, "jsdate", row.date>>

\* fetchExistingRecords
FetchExistingRecords(table) == {RowKey(row) : row \in table}

\* ----------------------------------------------------------- sweep state

ZeroStats ==
    [sitesPulled |-> 0, processed |-> 0, inserted |-> 0, skippedExisting |-> 0,
     targetInfoNotes |-> 0, targetErrors |-> 0, insertErrors |-> 0]

IdleRun ==
    [pc |-> "idle", before |-> 0, stats |-> ZeroStats, existingRecords |-> {},
     sites |-> <<>>, i |-> 0, today |-> 0, siteTarget |-> NULL,
     out |-> <<>>, solo |-> TRUE, seq |-> 0, day0 |-> 0, tries |-> 0,
     total |-> 0]

\* the program points inside fetchAndInsertRecords
SweepPcs ==
    {"loadIndex", "listSites", "overview", "target", "logTarget", "insert",
     "logInsertErr", "logSiteErr", "logFatal"}

InSweep(r) == run[r].pc \in SweepPcs

DbResults == IF events < MaxEvents THEN {TRUE, FALSE} ELSE {TRUE}

DbCall(ok) == events' = IF ok THEN events ELSE events + 1

\* A mutant: the directory items without the filter.
AccessibilitySitesAll(items) == [k \in 1..Len(items) |-> items[k].id]

\* (response.data.items || []).filter(site => site.product.includes('accessibility'))
RECURSIVE AccessibilitySites(_)
AccessibilitySites(items) ==
    IF items = <<>> THEN <<>>
    ELSE IF Head(items).accessibility
         THEN <<Head(items).id>> \o AccessibilitySites(Tail(items))
         ELSE AccessibilitySites(Tail(items))

\* entry.timestamp.startsWith(todayStr): the timestamp text begins with
\* the date text
StartsWith(entry, todayStr) == entry.day = todayStr

\* (items || []).find(...): the index of the first matching entry, 0 if none
TodayTarget(items, todayStr) ==
    IF \E k \in 1..Len(items) : StartsWith(items[k], todayStr)
    THEN CHOOSE k \in 1..Len(items) :
            /\ StartsWith(items[k], todayStr)
            /\ \A j \in 1..(k - 1) : ~StartsWith(items[j], todayStr)
    ELSE 0

\* const today = ...; stats.processed++; the overview request is issued
\* with axios.get (tries counts the requests for the site's overview)
BeginSite(st, k, now) ==
    [st EXCEPT !.i = k, !.today = now, !.stats.processed = @ + 1,
               !.siteTarget = NULL, !.tries = 1, !.pc = "overview"]

\* A mutant: the per-site catch rethrows, which ends the loop.
NextSiteAbort(st, now) ==
    IF st.pc = "logSiteErr"
    THEN [st EXCEPT !.pc = "after"]
    ELSE IF st.i < Len(st.sites)
         THEN BeginSite(st, st.i + 1, now)
         ELSE [st EXCEPT !.pc = "after"]

\* the end of one iteration of "for (const site of batch)": the next site,
\* or "return stats" and the caller's second COUNT query
NextSite(st, now) ==
    IF st.i < Len(st.sites)
    THEN BeginSite(st, st.i + 1, now)
    ELSE [st EXCEPT !.pc = "after"]

Outcome(st, had, res) ==
    Append(st.out, [sid |-> st.sites[st.i], date |-> st.today, had |-> had, res |-> res])

\* parseInt(total): the integer of a numeric text, NaN for a value without
\* leading digits (null, undefined, "n/a")
ParseIntTotal(total) == IF total = NULL THEN NaN ELSE total

\* the statement is rejected when an INTEGER column is given NaN
\* ("invalid input syntax for type integer")
IntegerAccepts(value) == value # NaN

\* A mutant: a key found in the index returns without counting the site.
InsertScoreCheckUncounted(st, table, now) ==
    IF RecordKey(st.sites[st.i], st.today) \in st.existingRecords
    THEN NextSite([st EXCEPT !.out = Outcome(st, HasRow(table, st.sites[st.i], st.today),
                                             "skipped")], now)
    ELSE [st EXCEPT !.pc = "insert"]

\* insertScore up to its query: the index lookup
InsertScoreCheck(st, table, now) ==
    IF RecordKey(st.sites[st.i], st.today) \in st.existingRecords
    THEN NextSite([st EXCEPT !.stats.skippedExisting = @ + 1,
                             !.out = Outcome(st, HasRow(table, st.sites[st.i], st.today),
                                             "skipped")], now)
    ELSE [st EXCEPT !.pc = "insert"]

\* const { a, aa, aaa, aria, total } = scoreResponse.data.a11y throws into
\* the site's catch when the object is missing; else the record is built
\* with parseInt of each score and passed to insertScore
BuildRecord(st, payload, table, now) ==
    IF ~payload.present
    THEN [st EXCEPT !.pc = "logSiteErr"]
    ELSE InsertScoreCheck([st EXCEPT !.total = ParseIntTotal(payload.total)], table, now)

Set(r, st) == run' = [run EXCEPT ![r] = st]

\* a step of the sweep; "return stats" is recorded with the sweep's history
SetSweep(r, st) ==
    /\ run' = [run EXCEPT ![r] = st]
    /\ finished' =
         IF st.pc = "after"
         THEN Append(finished, [who |-> r, stats |-> st.stats, sites |-> st.sites,
                                out |-> st.out, solo |-> st.solo, seq |-> st.seq,
                                day0 |-> st.day0, day1 |-> clock])
         ELSE finished

\* ---------------------------------------------------------------- fetcher

\* fetchWithExponentialBackoff(url, options, retries = 5, delay = 1000)
DefaultRetries == 5
DefaultDelay == 1000

\* the fetcher is not being called
IdleFetch ==
    [pc |-> "idle", retries |-> 0, attempt |-> 0, delay |-> 0, waits |-> <<>>,
     requests |-> 0, last |-> NULL]

\* the values of the retries and delay arguments
RetryChoices == 0..DefaultRetries
DelayChoices == {DefaultDelay, 250}

\* error.response.headers['retry-after']: undefined, or the header's text
\* (a number of seconds or an HTTP date)
RetryAfterChoices == {"undefined", "", "0", "2", "Wed, 21 Oct 2025 07:28:00 GMT"}

\* the answers to one request: a response, a 429 with its header, another
\* HTTP error, no response at all
ResponseChoices ==
    {[status |-> 200, retryAfter |-> "undefined"],
     [status |-> 500, retryAfter |-> "undefined"],
     [status |-> 0, retryAfter |-> "undefined"]}
    \cup {[status |-> 429, retryAfter |-> h] : h \in RetryAfterChoices}

\* the truth value of retryAfter in "retryAfter ? ... : delay"
Truthy(text) == text \notin {"undefined", ""}

\* parseInt(retryAfter): the leading digits, NaN when there are none
ParseInt(text) ==
    CASE text = "0" -> 0
      [] text = "2" -> 2
      [] OTHER -> NaN

\* parseInt(retryAfter) * 1000
Times1000(n) == IF n = NaN THEN NaN ELSE n * 1000

\* const waitTime = retryAfter ? parseInt(retryAfter) * 1000 : delay
WaitTime(retryAfter, delay) ==
    IF Truthy(retryAfter) THEN Times1000(ParseInt(retryAfter)) ELSE delay

\* A mutant: the delay is halved after every attempt.
NextDelayHalved(delay) == delay \div 2

\* delay *= 2
NextDelay(delay) == delay * 2

\* A mutant: the loop test is "attempt <= retries + 1".
LoopTestOneMore(f) ==
    IF f.attempt <= f.retries + 1
    THEN [f EXCEPT !.pc = "request", !.requests = @ + 1]
    ELSE [f EXCEPT !.pc = "maxRetries"]

\* the loop test "attempt <= retries": the next request is issued, or
\* 'Max retries exceeded' is thrown
LoopTest(f) ==
    IF f.attempt <= f.retries
    THEN [f EXCEPT !.pc = "request", !.requests = @ + 1]
    ELSE [f EXCEPT !.pc = "maxRetries"]

\* A mutant: every failed request is retried.
RateLimitedAnyError(resp) == resp.status # 200

\* error.response && error.response.status === 429
RateLimited(resp) == resp.status = 429

\* ---------------------------------------------------------------- backfill

\* for (let i = 0; i < sites.length; i += 20)
BatchSize == 20

\* the backfill is not running
IdleBackfill ==
    [pc |-> "idle", variant |-> "none", current |-> 0, endDate |-> 0,
     sites |-> <<>>, i |-> 0, n |-> 0, updates |-> <<>>, j |-> 0,
     failed |-> FALSE, missingTargetLogs |-> <<>>, clients |-> 0,
     rowCount |-> NULL, found |-> [sid |-> 0, date |-> 0, k |-> 0],
     txn |-> {}, csv |-> {}, exit |-> NULL, startDate |-> 0, issued |-> {},
     days |-> <<>>]

\* new Date('YYYY-MM-DD'): midnight UTC of the day, in hours
UtcMidnight(day) == 24 * day

\* new Date(current).toISOString().split('T')[0]
DateStr(current) == current \div 24

\* A time zone: its offset from UTC in hours is zone.base before the
\* instant zone.at (an hour of UTC) and zone.after from then on; a zone
\* without a transition has base = after.
UTC == [name |-> "UTC", base |-> 0, at |-> 0, after |-> 0]

\* the offset of the zone at the instant t
OffsetAt(zone, t) == IF t < zone.at THEN zone.base ELSE zone.after

\* the instant of a local wall-clock time; a wall-clock time that occurs
\* twice is read with the offset before the transition
LocalToUtc(zone, wall) ==
    IF wall - zone.base < zone.at THEN wall - zone.base ELSE wall - zone.after

\* current.setDate(current.getDate() + 1): the same wall-clock time of the
\* next local calendar day
NextDay(current, zone) ==
    LocalToUtc(zone, current + OffsetAt(zone, current) + 24)

\* new Date(entry.timestamp.trim().replace(' ', 'T')).toISOString()
\* .split('T')[0]: a timestamp without a zone is read as local time of the
\* process, the ISO form is UTC
EntryIsoDate(entry, zone) == LocalToUtc(zone, 24 * entry.day + entry.hour) \div 24

\* items.find(entry => iso === dateStr): the position of the first match,
\* 0 when there is none
FindEntry(items, dateStr, zone) ==
    LET hits == {k \in 1..Len(items) : EntryIsoDate(items[k], zone) = dateStr}
    IN  IF hits = {} THEN 0 ELSE CHOOSE k \in hits : \A o \in hits : k <= o

\* parseFloat(targetEntry.site_target_percentage)
ParseFloat(pct) == IF pct = NULL THEN NaN ELSE pct

\* missingTargetLogs.push({ sid, name, date, reason })
Miss(st, reason) ==
    [st EXCEPT !.missingTargetLogs =
        Append(@, [sid |-> st.sites[st.n], date |-> DateStr(st.current),
                   reason |-> reason])]

\* fs.writeFileSync(csvPath, csvContent): the file of the date is replaced
WriteFile(files, date, lines) ==
    {f \in files : f.date # date} \cup {[date |-> date, lines |-> lines]}

\* the sites of one batch: 20 in the batch script, all of them in the
\* legacy backfill
BatchLength(st) == IF st.variant = "v2" THEN BatchSize ELSE Len(st.sites) + 1

\* the position of the last site of the batch that starts at st.i
BatchLast(st) ==
    IF st.i + BatchLength(st) - 1 < Len(st.sites)
    THEN st.i + BatchLength(st) - 1
    ELSE Len(st.sites)

\* if (!approvedUrls.has(normalizedSiteUrl)) continue: the position of the
\* first approved site from k to last, last + 1 when there is none
RECURSIVE SkipUnapproved(_, _, _, _)
SkipUnapproved(sites, list, k, last) ==
    IF k > last THEN k
    ELSE IF sites[k] \in list THEN k
    ELSE SkipUnapproved(sites, list, k + 1, last)

\* A mutant: the fatal catch exits with code 0.
FinishClean(st, code) ==
    IF st.variant = "v2"
    THEN [st EXCEPT !.pc = "exited", !.exit = 0]
    ELSE [st EXCEPT !.pc = "responded"]

\* the end of the process or of the handler
Finish(st, code) ==
    IF st.variant = "v2"
    THEN [st EXCEPT !.pc = "exited", !.exit = code]
    ELSE [st EXCEPT !.pc = "responded"]

RECURSIVE DayTest(_, _, _)
RECURSIVE BeginBatch(_, _, _, _)

\* A mutant: the report is written and the buffer is kept for the next day.
DayEndKeeps(st, list, zone) ==
    LET written == IF Len(st.missingTargetLogs) > 0
                   THEN [st EXCEPT !.csv = WriteFile(@, DateStr(st.current),
                                                     st.missingTargetLogs)]
                   ELSE st
    IN  DayTest([written EXCEPT !.current = NextDay(@, zone)], list, zone)

\* the end of a day: the report of the day is written when the buffer
\* holds a miss, the buffer is emptied, and the loop goes to the next day
DayEnd(st, list, zone) ==
    LET flushed == IF Len(st.missingTargetLogs) > 0
                   THEN [st EXCEPT !.csv = WriteFile(@, DateStr(st.current),
                                                     st.missingTargetLogs),
                                   !.missingTargetLogs = <<>>]
                   ELSE st
    IN  DayTest([flushed EXCEPT !.current = NextDay(@, zone)], list, zone)

\* the end of a batch: the connection is requested when there are
\* updates, else the next batch begins
BatchEnd(st, list, zone) ==
    IF Len(st.updates) > 0
    THEN [st EXCEPT !.pc = "connect"]
    ELSE BeginBatch(st, st.i + BatchLength(st), list, zone)

\* the loop over the sites of a batch from position k: the history of
\* the first approved site is requested
SiteStep(st, k, list, zone) ==
    LET n == SkipUnapproved(st.sites, list, k, BatchLast(st))
    IN  IF n <= BatchLast(st)
        THEN [st EXCEPT !.pc = "history", !.n = n]
        ELSE BatchEnd(st, list, zone)

\* the batch that starts at position lo, or the end of the day
BeginBatch(st, lo, list, zone) ==
    IF lo > Len(st.sites)
    THEN DayEnd(st, list, zone)
    ELSE SiteStep([st EXCEPT !.i = lo, !.updates = <<>>], lo, list, zone)

\* the loop test "current <= endDate"
DayTest(st, list, zone) ==
    IF st.current <= st.endDate
    THEN BeginBatch([st EXCEPT !.days = Append(@, DateStr(st.current))],
                    1, list, zone)
    ELSE Finish(st, 0)

\* ------------------------------------------------------------------ Init

DirectoryChoices ==
    {[ok |-> FALSE, items |-> <<>>],
     [ok |-> TRUE, items |-> <<>>],
     [ok |-> TRUE, items |-> [k \in 1..NumSites |-> [id |-> k, accessibility |-> TRUE]]],
     [ok |-> TRUE, items |-> [k \in 1..NumSites |->
                                [id |-> NumSites + 1 - k, accessibility |-> k # 1]]]}

HistoryChoices ==
    {[ok |-> FALSE, items |-> <<>>],
     [ok |-> TRUE, items |-> <<>>],
     [ok |-> TRUE, items |-> <<[day |-> 1, hour |-> 0, pct |-> 80],
                               [day |-> 2, hour |-> 0, pct |-> 90]>>]}

OverviewChoices == {200, 500, 429}

\* the a11y object of a site's overview: its total is 10 times the site id
GoodScores == [s \in Sites |-> [present |-> TRUE, total |-> 10 * s]]

PreRow(s) ==
    [id |-> s, sid |-> s, date |-> 1, ada_score_total |-> 10 * s,
     site_target_score |-> NULL, by |-> "pre"]

\* no backfill process exists
BackfillAtRest ==
    /\ bf = IdleBackfill
    /\ ada_scores_backup = {}
    /\ error_log = EmptyBag
    /\ tz = UTC
    /\ approved = Sites

\* /run-now of the first server before a request
IdleApp ==
    [pc |-> "idle", existingRecords |-> {}, sites |-> <<>>, i |-> 0,
     sweep |-> "none", requests |-> 0, unanswered |-> 0]

\* /run-batch before a request
IdleRunBatch ==
    [reqs |-> <<>>, spawns |-> <<>>, answers |-> <<>>, pending |-> 0]

\* the sweep of the bulk server before a request: per directory item the
\* state of its async function, and the insert buffer
IdleBulk ==
    [pc |-> "idle", sites |-> <<>>, task |-> <<>>, attempt |-> <<>>,
     bulkInsertBuffer |-> <<>>, requests |-> 0]

\* no list of UPDATEs is being applied
NoPatches == [todo |-> <<>>, pass |-> 0, k |-> 0, initial |-> {}, first |-> {}]

HandlersAtRest ==
    /\ app = IdleApp
    /\ appLog = <<>>
    /\ rb = IdleRunBatch
    /\ bulk = IdleBulk
    /\ patches = NoPatches

\* the server has received no request and no tick
ServerAtRest ==
    /\ error_logs = EmptyBag
    /\ jobRunning = FALSE
    /\ consoleLog = <<>>
    /\ httpLog = <<>>
    /\ run = [r \in Runners |-> IdleRun]
    /\ runsStarted = 0
    /\ ticks = 0
    /\ finished = <<>>

Init ==
    /\ clock = 1
    /\ \E pre \in SUBSET Sites : ada_scores = {PreRow(s) : s \in pre}
    /\ error_logs = EmptyBag
    /\ jobRunning = FALSE
    /\ consoleLog = <<>>
    /\ httpLog = <<>>
    /\ run = [r \in Runners |-> IdleRun]
    /\ runsStarted = 0
    /\ ticks = 0
    /\ events = 0
    /\ finished = <<>>
    /\ directory \in DirectoryChoices
    /\ overview \in [Sites -> OverviewChoices]
    /\ history \in [Sites -> HistoryChoices]
    /\ a11y = GoodScores
    \* the history of a site whose overview request fails is never requested
    /\ \A s \in Sites : overview[s] # 200 => ~history[s].ok
    /\ fetch = IdleFetch
    /\ BackfillAtRest
    /\ HandlersAtRest

\* --------------------------------------------------------------- actions

\* the start of a handler's try block: the first COUNT query is issued
StartRun(r) ==
    /\ run' = [q \in Runners |->
                 IF q = r
                 THEN [IdleRun EXCEPT !.pc = "before", !.day0 = clock,
                          !.seq = runsStarted + 1,
                          !.solo = \A o \in Runners \ {r} : run[o].pc = "idle"]
                 ELSE IF run[q].pc # "idle"
                      THEN [run[q] EXCEPT !.solo = FALSE]
                      ELSE run[q]]
    /\ runsStarted' = runsStarted + 1

\* A mutant: the flag is cleared at the end of the try block, not in a
\* finally block.
EndRunNoFinally(r, st, ok) ==
    /\ Set(r, IdleRun)
    /\ IF r = "cron"
       THEN /\ consoleLog' = Append(consoleLog, IF ok THEN "complete" ELSE "failed")
            /\ jobRunning' = IF ok THEN FALSE ELSE jobRunning
            /\ UNCHANGED httpLog
       ELSE /\ httpLog' = Append(httpLog, IF ok THEN 200 ELSE 500)
            /\ UNCHANGED <<consoleLog, jobRunning>>
    /\ UNCHANGED finished

\* the end of a handler: its log line or its response, and for the
\* scheduler the finally block
EndRun(r, st, ok) ==
    /\ Set(r, IdleRun)
    /\ IF r = "cron"
       THEN /\ consoleLog' = Append(consoleLog, IF ok THEN "complete" ELSE "failed")
            /\ jobRunning' = FALSE
            /\ UNCHANGED httpLog
       ELSE /\ httpLog' = Append(httpLog, IF ok THEN 200 ELSE 500)
            /\ UNCHANGED <<consoleLog, jobRunning>>
    /\ UNCHANGED finished

\* A mutant: the skipped tick clears the flag.
CronSkipClears ==
    /\ jobRunning
    /\ ticks < MaxTicks
    /\ ticks' = ticks + 1
    /\ consoleLog' = Append(consoleLog, "skip")
    /\ jobRunning' = FALSE
    /\ UNCHANGED <<clock, ada_scores, error_logs, httpLog, run, runsStarted,
                   events, finished, upstream, handlers, fetcher, backfill>>

\* cron.schedule callback, jobRunning set: the tick is skipped
CronSkip ==
    /\ jobRunning
    /\ ticks < MaxTicks
    /\ ticks' = ticks + 1
    /\ consoleLog' = Append(consoleLog, "skip")
    /\ UNCHANGED <<clock, ada_scores, error_logs, jobRunning, httpLog, run,
                   runsStarted, events, finished, upstream, handlers, fetcher, backfill>>

\* cron.schedule callback, jobRunning clear: the scheduled run starts
CronStart ==
    /\ ~jobRunning
    /\ ticks < MaxTicks
    /\ runsStarted < MaxRuns
    /\ ticks' = ticks + 1
    /\ jobRunning' = TRUE
    /\ consoleLog' = Append(consoleLog, "started")
    /\ StartRun("cron")
    /\ UNCHANGED <<clock, ada_scores, error_logs, httpLog, events,
                   finished, upstream, handlers, fetcher, backfill>>

\* GET /run-now
RunNow ==
    /\ run["manual"].pc = "idle"
    /\ runsStarted < MaxRuns
    /\ StartRun("manual")
    /\ UNCHANGED <<clock, ada_scores, error_logs, jobRunning, consoleLog, httpLog,
                   ticks, events, finished, upstream, handlers, fetcher, backfill>>

\* SELECT COUNT(*) FROM ada_scores (before), then fetchAndInsertRecords is
\* entered and issues the index query
CountBefore(r) ==
    /\ run[r].pc = "before"
    /\ \E ok \in DbResults :
        /\ DbCall(ok)
        /\ IF ok
           THEN /\ Set(r, [run[r] EXCEPT !.before = Cardinality(ada_scores),
                                         !.pc = "loadIndex"])
                /\ UNCHANGED <<consoleLog, jobRunning, httpLog, finished>>
           ELSE EndRun(r, run[r], FALSE)
    /\ UNCHANGED <<clock, ada_scores, error_logs, runsStarted, ticks, upstream, handlers, fetcher, backfill>>

\* const existingRecords = await fetchExistingRecords(): outside the try
\* block, so a failure goes to the caller unlogged
LoadIndex(r) ==
    /\ run[r].pc = "loadIndex"
    /\ \E ok \in DbResults :
        /\ DbCall(ok)
        /\ IF ok
           THEN /\ Set(r, [run[r] EXCEPT
                             !.existingRecords = FetchExistingRecords(ada_scores),
                             !.pc = "listSites"])
                /\ UNCHANGED <<consoleLog, jobRunning, httpLog, finished>>
           ELSE EndRun(r, run[r], FALSE)
    /\ UNCHANGED <<clock, ada_scores, error_logs, runsStarted, ticks, upstream, handlers, fetcher, backfill>>

\* the directory request and the filter; a failure goes to the outer catch
ListSites(r) ==
    /\ run[r].pc = "listSites"
    /\ LET sites == AccessibilitySites(directory.items)
           st == [run[r] EXCEPT !.sites = sites, !.stats.sitesPulled = Len(sites)]
       IN  SetSweep(r, IF ~directory.ok THEN [run[r] EXCEPT !.pc = "logFatal"]
                  ELSE IF sites = <<>> THEN [st EXCEPT !.pc = "after"]
                  ELSE BeginSite(st, 1, clock))
    /\ UNCHANGED <<clock, ada_scores, error_logs, jobRunning, consoleLog, httpLog,
                   runsStarted, ticks, events, upstream, handlers, fetcher, backfill>>

\* outer catch: logErrorToDatabase(null, 'General API Error', ...); throw err
LogFatal(r) ==
    /\ run[r].pc = "logFatal"
    /\ \E ok \in DbResults :
        /\ DbCall(ok)
        /\ error_logs' = LogErrorToDatabase(error_logs, NULL, "ERROR", ok)
    /\ EndRun(r, run[r], FALSE)
    /\ UNCHANGED <<clock, ada_scores, runsStarted, ticks, upstream, handlers, fetcher, backfill>>

\* the dci/overview response: the target request is issued, or the
\* request's error goes to the site's catch
Overview(r) ==
    /\ run[r].pc = "overview"
    /\ Set(r, [run[r] EXCEPT !.pc =
                  IF overview[run[r].sites[run[r].i]] = 200 THEN "target"
                  ELSE "logSiteErr"])
    /\ UNCHANGED <<clock, ada_scores, error_logs, jobRunning, consoleLog, httpLog,
                   runsStarted, ticks, events, finished, upstream, handlers, fetcher, backfill>>

\* A mutant: a missing target goes to the site's catch.
TargetMissingAborts(st, counter) ==
    [st EXCEPT !.pc = "logSiteErr"]

\* the inner catch (stats.targetErrors++) and the else branch
\* (stats.targetInfoNotes++): the INFO row is logged, siteTarget stays null
TargetMissing(st, counter) ==
    [st EXCEPT !.stats[counter] = @ + 1, !.pc = "logTarget"]

\* the site_target/history response: today's entry is looked up
Target(r) ==
    /\ run[r].pc = "target"
    /\ LET st == run[r]
           h == history[st.sites[st.i]]
           k == TodayTarget(h.items, clock)
       IN  SetSweep(r, IF ~h.ok
                  THEN TargetMissing(st, "targetErrors")
                  ELSE IF k = 0
                       THEN TargetMissing(st, "targetInfoNotes")
                       ELSE BuildRecord([st EXCEPT !.siteTarget =
                                             ParseFloat(h.items[k].pct)],
                                        a11y[st.sites[st.i]], ada_scores, clock))
    /\ UNCHANGED <<clock, ada_scores, error_logs, jobRunning, consoleLog, httpLog,
                   runsStarted, ticks, events, upstream, handlers, fetcher, backfill>>

\* logErrorToDatabase(site.id, ..., 'INFO') of the target block, then the
\* record is built and insertScore is entered
LogTarget(r) ==
    /\ run[r].pc = "logTarget"
    /\ \E ok \in DbResults :
        /\ DbCall(ok)
        /\ error_logs' = LogErrorToDatabase(error_logs, run[r].sites[run[r].i], "INFO", ok)
    /\ SetSweep(r, BuildRecord(run[r], a11y[run[r].sites[run[r].i]], ada_scores, clock))
    /\ UNCHANGED <<clock, ada_scores, jobRunning, consoleLog, httpLog, runsStarted,
                   ticks, upstream, handlers, fetcher, backfill>>

\* A mutant: rowCount is not read, every answered INSERT counts as inserted.
InsertResultNoRowCount(st, rowCount, ok, now) ==
    IF ~ok
    THEN [st EXCEPT !.stats.insertErrors = @ + 1, !.pc = "logInsertErr",
                    !.out = Outcome(st, rowCount = 0, "error")]
    ELSE NextSite([st EXCEPT !.stats.inserted = @ + 1,
                      !.existingRecords = @ \cup {RecordKey(st.sites[st.i], st.today)},
                      !.out = Outcome(st, rowCount = 0, "inserted")], now)

\* A mutant: the key is added to the index before the query is awaited, so
\* a failed INSERT leaves it there.
InsertResultIndexesFailure(st, rowCount, ok, now) ==
    LET key == RecordKey(st.sites[st.i], st.today)
    IN  IF ~ok
        THEN [st EXCEPT !.stats.insertErrors = @ + 1, !.pc = "logInsertErr",
                        !.existingRecords = @ \cup {key},
                        !.out = Outcome(st, rowCount = 0, "error")]
        ELSE IF rowCount > 0
             THEN NextSite([st EXCEPT !.stats.inserted = @ + 1,
                               !.existingRecords = @ \cup {key},
                               !.out = Outcome(st, FALSE, "inserted")], now)
             ELSE NextSite([st EXCEPT !.stats.skippedExisting = @ + 1,
                               !.out = Outcome(st, TRUE, "skipped")], now)

\* A mutant: a statement that affected no row is handled as a failure.
InsertResultConflictFails(st, rowCount, ok, now) ==
    IF ~ok \/ rowCount = 0
    THEN [st EXCEPT !.stats.insertErrors = @ + 1, !.pc = "logInsertErr",
                    !.out = Outcome(st, rowCount = 0, "error")]
    ELSE NextSite([st EXCEPT !.stats.inserted = @ + 1,
                      !.existingRecords = @ \cup {RecordKey(st.sites[st.i], st.today)},
                      !.out = Outcome(st, FALSE, "inserted")], now)

\* insertScore after its query: the counters and the index
InsertResult(st, rowCount, ok, now) ==
    IF ~ok
    THEN [st EXCEPT !.stats.insertErrors = @ + 1, !.pc = "logInsertErr",
                    !.out = Outcome(st, rowCount = 0, "error")]
    ELSE IF rowCount > 0
         THEN NextSite([st EXCEPT !.stats.inserted = @ + 1,
                           !.existingRecords = @ \cup {RecordKey(st.sites[st.i], st.today)},
                           !.out = Outcome(st, FALSE, "inserted")], now)
         ELSE NextSite([st EXCEPT !.stats.skippedExisting = @ + 1,
                           !.out = Outcome(st, TRUE, "skipped")], now)

\* the INSERT of insertScore
Insert(r) ==
    /\ run[r].pc = "insert"
    /\ LET st == run[r]
           rec == [sid |-> st.sites[st.i], date |-> st.today,
                   ada_score_total |-> st.total,
                   site_target_score |-> st.siteTarget]
       IN  \E ok \in IF IntegerAccepts(rec.ada_score_total) THEN DbResults ELSE {FALSE} :
            /\ events' = IF ok \/ ~IntegerAccepts(rec.ada_score_total)
                         THEN events ELSE events + 1
            /\ ada_scores' = IF ok THEN InsertOnConflictDoNothing(ada_scores, rec, r)
                             ELSE ada_scores
            /\ SetSweep(r, InsertResult(st, InsertRowCount(ada_scores, rec), ok, clock))
    /\ UNCHANGED <<clock, error_logs, jobRunning, consoleLog, httpLog, runsStarted,
                   ticks, upstream, handlers, fetcher, backfill>>

\* insertScore's catch: logErrorToDatabase(record.sid, ...)
LogInsertErr(r) ==
    /\ run[r].pc = "logInsertErr"
    /\ \E ok \in DbResults :
        /\ DbCall(ok)
        /\ error_logs' = LogErrorToDatabase(error_logs, run[r].sites[run[r].i], "ERROR", ok)
    /\ SetSweep(r, NextSite(run[r], clock))
    /\ UNCHANGED <<clock, ada_scores, jobRunning, consoleLog, httpLog, runsStarted,
                   ticks, upstream, handlers, fetcher, backfill>>

\* the site's catch: logErrorToDatabase(site.id, ..., 'WARNING')
LogSiteErr(r) ==
    /\ run[r].pc = "logSiteErr"
    /\ \E ok \in DbResults :
        /\ DbCall(ok)
        /\ error_logs' = LogErrorToDatabase(error_logs, run[r].sites[run[r].i], "WARNING", ok)
    /\ SetSweep(r, NextSite([run[r] EXCEPT !.out = Outcome(run[r], FALSE, "failed")], clock))
    /\ UNCHANGED <<clock, ada_scores, jobRunning, consoleLog, httpLog, runsStarted,
                   ticks, upstream, handlers, fetcher, backfill>>

\* SELECT COUNT(*) FROM ada_scores (after), then the summary
CountAfter(r) ==
    /\ run[r].pc = "after"
    /\ \E ok \in DbResults :
        /\ DbCall(ok)
        /\ EndRun(r, run[r], ok)
    /\ UNCHANGED <<clock, ada_scores, error_logs, runsStarted, ticks, upstream, handlers, fetcher, backfill>>

\* the batch UPDATE of a backfill process running beside the server
BackfillPatch ==
    /\ events < MaxEvents
    /\ events' = events + 1
    /\ \E s \in Sites : \E k \in 1..Len(history[s].items) :
        ada_scores' = PatchTargetIfMissing(ada_scores, s, history[s].items[k].day,
                                           history[s].items[k].pct)
    /\ UNCHANGED <<clock, error_logs, jobRunning, consoleLog, httpLog, run,
                   runsStarted, ticks, finished, upstream, handlers, fetcher, backfill>>

\* midnight UTC
AdvanceDay ==
    /\ events < MaxEvents
    /\ events' = events + 1
    /\ clock' = clock + 1
    /\ UNCHANGED <<ada_scores, error_logs, jobRunning, consoleLog, httpLog, run,
                   runsStarted, ticks, finished, upstream, handlers, fetcher, backfill>>

Step(r) ==
    \/ CountBefore(r)
    \/ LoadIndex(r)
    \/ ListSites(r)
    \/ LogFatal(r)
    \/ Overview(r)
    \/ Target(r)
    \/ LogTarget(r)
    \/ Insert(r)
    \/ LogInsertErr(r)
    \/ LogSiteErr(r)
    \/ CountAfter(r)

Next ==
    \/ CronSkip
    \/ CronStart
    \/ RunNow
    \/ \E r \in Runners : Step(r)
    \/ BackfillPatch
    \/ AdvanceDay

Spec == Init /\ [][Next]_vars

\* ------------------------- one manual sweep over a wider set of responses

\* the directories of the sweep, one that lists the sites in descending
\* order and one that lists the first site twice
SweepDirectoryChoices ==
    DirectoryChoices \cup
    {[ok |-> TRUE, items |-> [k \in 1..NumSites |->
                                [id |-> NumSites + 1 - k, accessibility |-> TRUE]]],
     [ok |-> TRUE, items |-> [k \in 1..(NumSites + 1) |->
                                [id |-> IF k > NumSites THEN 1 ELSE k,
                                 accessibility |-> TRUE]]]}

\* the history responses of the sweep, and one whose entry of day 1 has a
\* site_target_percentage that is not a number
SweepHistoryChoices ==
    HistoryChoices \cup
    {[ok |-> TRUE, items |-> <<[day |-> 1, hour |-> 0, pct |-> NULL]>>]}

\* the a11y object of a site: good, with a total that is not a number, or
\* missing from the response
ScoreChoices(s) ==
    {[present |-> TRUE, total |-> 10 * s],
     [present |-> TRUE, total |-> NULL],
     [present |-> FALSE, total |-> NULL]}

InitSweep ==
    /\ clock = 1
    /\ \E pre \in SUBSET Sites : ada_scores = {PreRow(s) : s \in pre}
    /\ events = 0
    /\ directory \in SweepDirectoryChoices
    /\ overview \in [Sites -> OverviewChoices]
    /\ history \in [Sites -> SweepHistoryChoices]
    /\ a11y \in [Sites -> UNION {ScoreChoices(s) : s \in Sites}]
    /\ \A s \in Sites : a11y[s] \in ScoreChoices(s)
    \* what follows a failed overview request of a site is never read
    /\ \A s \in Sites : overview[s] # 200 => ~history[s].ok /\ a11y[s] = GoodScores[s]
    /\ ServerAtRest
    /\ fetch = IdleFetch
    /\ BackfillAtRest
    /\ HandlersAtRest

NextSweep ==
    \/ RunNow
    \/ Step("manual")

SpecSweep == InitSweep /\ [][NextSweep]_vars

\* ------------------------------------------------------ fetcher: actions

\* a caller enters fetchWithExponentialBackoff: attempt = 1
FetchCall ==
    /\ fetch.pc \in {"idle", "returned", "thrown", "maxRetries"}
    /\ \E retries \in RetryChoices : \E delay \in DelayChoices :
        fetch' = LoopTest([pc |-> "request", retries |-> retries, attempt |-> 1,
                           delay |-> delay, waits |-> <<>>, requests |-> 0,
                           last |-> NULL])
    /\ UNCHANGED <<clock, ada_scores, events, upstream, handlers, server, backfill>>

\* the answer to axios.get: the response is returned, a 429 starts a
\* wait, any other error is thrown again
FetchRespond ==
    /\ fetch.pc = "request"
    /\ \E resp \in ResponseChoices :
        fetch' = IF resp.status = 200
                 THEN [fetch EXCEPT !.pc = "returned", !.last = resp.status]
                 ELSE IF RateLimited(resp)
                 THEN [fetch EXCEPT !.pc = "waiting", !.last = resp.status,
                         !.waits = Append(@, [ms |-> WaitTime(resp.retryAfter, fetch.delay),
                                              retryAfter |-> resp.retryAfter])]
                 ELSE [fetch EXCEPT !.pc = "thrown", !.last = resp.status]
    /\ UNCHANGED <<clock, ada_scores, events, upstream, handlers, server, backfill>>

\* the timer fires: delay *= 2, attempt++ and the loop test
FetchWake ==
    /\ fetch.pc = "waiting"
    /\ fetch' = LoopTest([fetch EXCEPT !.delay = NextDelay(@), !.attempt = @ + 1])
    /\ UNCHANGED <<clock, ada_scores, events, upstream, handlers, server, backfill>>

InitFetch ==
    /\ clock = 1
    /\ ada_scores = {}
    /\ events = 0
    /\ directory = [ok |-> FALSE, items |-> <<>>]
    /\ overview = [s \in Sites |-> 200]
    /\ history = [s \in Sites |-> [ok |-> FALSE, items |-> <<>>]]
    /\ a11y = GoodScores
    /\ ServerAtRest
    /\ BackfillAtRest
    /\ HandlersAtRest
    /\ fetch = IdleFetch

NextFetch ==
    \/ FetchCall
    \/ FetchRespond
    \/ FetchWake

SpecFetch == InitFetch /\ [][NextFetch]_vars

\* every request is answered and every timer fires
SpecFetchLive ==
    InitFetch /\ [][NextFetch]_vars /\ WF_vars(FetchRespond) /\ WF_vars(FetchWake)

\* ----------------------------------------------------- backfill: actions

\* const startDate = new Date('2025-05-01') of the legacy backfill
LegacyStart == 1

BackfillDays == 1..MaxDay

\* the hour of the day at which the legacy backfill reads new Date()
NowHours == {0, 23}

\* node historical-data-batch-v2.js <start> <end>: the arguments are read
\* and the approved list is loaded, then the directory is requested
StartV2(start, end, fileOk) ==
    IF fileOk
    THEN [IdleBackfill EXCEPT !.pc = "listSites", !.variant = "v2",
                              !.current = UtcMidnight(start),
                              !.startDate = UtcMidnight(start),
                              !.endDate = UtcMidnight(end)]
    ELSE Finish([IdleBackfill EXCEPT !.variant = "v2"], 1)

\* the batch script started from a shell
BfStartV2 ==
    /\ bf.pc = "idle"
    /\ \E start \in BackfillDays : \E end \in BackfillDays : \E fileOk \in BOOLEAN :
        bf' = StartV2(start, end, fileOk)
    /\ UNCHANGED <<clock, ada_scores, events, upstream, handlers, server, fetcher,
                   ada_scores_backup, error_log, tz, approved>>

\* GET /run-now of the legacy server: fetchAndUpdateTargetScores loads the
\* approved list outside its try block, then requests the directory
BfStartLegacy ==
    /\ bf.pc = "idle"
    /\ \E hour \in NowHours : \E fileOk \in BOOLEAN :
        bf' = IF fileOk
              THEN [IdleBackfill EXCEPT !.pc = "listSites", !.variant = "legacy",
                                        !.current = UtcMidnight(LegacyStart),
                                        !.startDate = UtcMidnight(LegacyStart),
                                        !.endDate = 24 * clock + hour]
              ELSE [IdleBackfill EXCEPT !.pc = "rejected", !.variant = "legacy"]
    /\ UNCHANGED <<clock, ada_scores, events, upstream, handlers, server, fetcher,
                   ada_scores_backup, error_log, tz, approved>>

\* the directory response and the filter; the day loop is entered
BfListSites ==
    /\ bf.pc = "listSites"
    /\ bf' = IF directory.ok
             THEN DayTest([bf EXCEPT !.sites = AccessibilitySites(directory.items)],
                          approved, tz)
             ELSE IF bf.variant = "v2" THEN Finish(bf, 1)
             ELSE [bf EXCEPT !.pc = "logFatal"]
    /\ UNCHANGED <<clock, ada_scores, events, upstream, handlers, server, fetcher,
                   ada_scores_backup, error_log, tz, approved>>

\* the site_target/history response of the site: the entry of the day is
\* looked up and the update or the miss is recorded
BfHistory ==
    /\ bf.pc = "history"
    /\ LET sid == bf.sites[bf.n]
           h == history[sid]
           date == DateStr(bf.current)
           k == FindEntry(h.items, date, tz)
           seen == [bf EXCEPT !.found = [sid |-> sid, date |-> date, k |-> k]]
       IN  bf' = IF ~h.ok
                 THEN IF bf.variant = "v2"
                      THEN SiteStep(Miss(bf, "Fetch error"), bf.n + 1, approved, tz)
                      ELSE [bf EXCEPT !.pc = "logFetchErr"]
                 ELSE IF k = 0
                 THEN SiteStep(Miss(seen, "No site_target_percentage"),
                               bf.n + 1, approved, tz)
                 ELSE IF bf.variant = "v2" /\ ParseFloat(h.items[k].pct) = NaN
                 THEN SiteStep(Miss(seen, "site_target_percentage not a number"),
                               bf.n + 1, approved, tz)
                 ELSE SiteStep([seen EXCEPT !.updates =
                                   Append(@, [sid |-> sid, date |-> date,
                                              score |-> ParseFloat(h.items[k].pct)])],
                               bf.n + 1, approved, tz)
    /\ UNCHANGED <<clock, ada_scores, events, upstream, handlers, server, fetcher,
                   ada_scores_backup, error_log, tz, approved>>

\* legacy: logErrorToDatabase(site.id, ..., 'INFO') of a failed history
\* request
BfLogFetchErr ==
    /\ bf.pc = "logFetchErr"
    /\ \E ok \in DbResults :
        /\ DbCall(ok)
        /\ error_log' = LogErrorToDatabase(error_log, bf.sites[bf.n], "INFO", ok)
    /\ bf' = SiteStep(bf, bf.n + 1, approved, tz)
    /\ UNCHANGED <<clock, ada_scores, upstream, handlers, server, fetcher,
                   ada_scores_backup, tz, approved>>

\* const client = await pool.connect(): outside the try block in both
\* variants
BfConnect ==
    /\ bf.pc = "connect"
    /\ \E ok \in DbResults :
        /\ DbCall(ok)
        /\ bf' = IF ok
                 THEN [bf EXCEPT !.clients = @ + 1, !.j = 1, !.failed = FALSE,
                                 !.issued = IF bf.variant = "v2"
                                            THEN @ \cup {bf.updates[q] : q \in 1..Len(bf.updates)}
                                            ELSE @,
                                 !.pc = IF bf.variant = "v2" THEN "update" ELSE "begin"]
                 ELSE IF bf.variant = "v2" THEN Finish(bf, 1)
                 ELSE [bf EXCEPT !.pc = "logFatal"]
    /\ UNCHANGED <<clock, ada_scores, upstream, handlers, server, fetcher,
                   ada_scores_backup, error_log, tz, approved>>

\* batch script: one UPDATE of the batch is executed; after the last one
\* the client is released and the next batch begins
BfUpdate ==
    /\ bf.pc = "update"
    /\ LET u == bf.updates[bf.j]
       IN  \E ok \in DbResults :
            /\ DbCall(ok)
            /\ ada_scores' = IF ok
                             THEN PatchTargetIfMissing(ada_scores, u.sid, u.date, u.score)
                             ELSE ada_scores
            /\ LET st == [bf EXCEPT !.j = @ + 1, !.failed = @ \/ ~ok,
                            !.rowCount = IF ok
                                         THEN PatchRowCount(ada_scores, u.sid, u.date)
                                         ELSE NULL]
               IN  bf' = IF bf.j = Len(bf.updates)
                         THEN BeginBatch([st EXCEPT !.clients = @ - 1],
                                         st.i + BatchLength(st), approved, tz)
                         ELSE st
    /\ UNCHANGED <<clock, upstream, handlers, server, fetcher, ada_scores_backup,
                   error_log, tz, approved>>

\* legacy batchUpdateSiteTargetScores: BEGIN
BfBegin ==
    /\ bf.pc = "begin"
    /\ \E ok \in DbResults :
        /\ DbCall(ok)
        /\ bf' = IF ok
                 THEN [bf EXCEPT !.pc = "legacyUpdate", !.txn = ada_scores_backup,
                                 !.issued = @ \cup {bf.updates[q] : q \in 1..Len(bf.updates)}]
                 ELSE [bf EXCEPT !.pc = "rollback"]
    /\ UNCHANGED <<clock, ada_scores, upstream, handlers, server, fetcher,
                   ada_scores_backup, error_log, tz, approved>>

\* A mutant: the UPDATE is executed outside the transaction and is visible
\* at once.
BfLegacyUpdateAutocommit ==
    /\ bf.pc = "legacyUpdate"
    /\ LET u == bf.updates[bf.j]
       IN  \E ok \in DbResults :
            /\ DbCall(ok)
            /\ ada_scores_backup' =
                  IF ok THEN LegacyUpdateTarget(ada_scores_backup, u.sid, u.date, u.score)
                  ELSE ada_scores_backup
            /\ bf' = IF ok
                     THEN [bf EXCEPT !.j = @ + 1,
                             !.txn = LegacyUpdateTarget(@, u.sid, u.date, u.score),
                             !.pc = IF bf.j = Len(bf.updates) THEN "commit"
                                    ELSE "legacyUpdate"]
                     ELSE [bf EXCEPT !.failed = TRUE, !.pc = "rollback"]
    /\ UNCHANGED <<clock, ada_scores, upstream, handlers, server, fetcher,
                   error_log, tz, approved>>

\* legacy: one UPDATE inside the transaction; a failure aborts the
\* transaction and goes to the catch
BfLegacyUpdate ==
    /\ bf.pc = "legacyUpdate"
    /\ LET u == bf.updates[bf.j]
       IN  \E ok \in DbResults :
            /\ DbCall(ok)
            /\ bf' = IF ok
                     THEN [bf EXCEPT !.j = @ + 1,
                             !.txn = LegacyUpdateTarget(@, u.sid, u.date, u.score),
                             !.pc = IF bf.j = Len(bf.updates) THEN "commit"
                                    ELSE "legacyUpdate"]
                     ELSE [bf EXCEPT !.failed = TRUE, !.pc = "rollback"]
    /\ UNCHANGED <<clock, ada_scores, upstream, handlers, server, fetcher,
                   ada_scores_backup, error_log, tz, approved>>

\* legacy: COMMIT, then the finally block releases the client and the day
\* ends
BfCommit ==
    /\ bf.pc = "commit"
    /\ \E ok \in DbResults :
        /\ DbCall(ok)
        /\ ada_scores_backup' = IF ok THEN bf.txn ELSE ada_scores_backup
        /\ bf' = IF ok
                 THEN BeginBatch([bf EXCEPT !.clients = @ - 1],
                                 bf.i + BatchLength(bf), approved, tz)
                 ELSE [bf EXCEPT !.failed = TRUE, !.pc = "rollback"]
    /\ UNCHANGED <<clock, ada_scores, upstream, handlers, server, fetcher, error_log,
                   tz, approved>>

\* A mutant: the client is released after the ROLLBACK in the catch, not
\* in a finally block.
BfRollbackNoFinally ==
    /\ bf.pc = "rollback"
    /\ \E ok \in BOOLEAN :
        /\ UNCHANGED events
        /\ bf' = IF ok
                 THEN BeginBatch([bf EXCEPT !.clients = @ - 1],
                                 bf.i + BatchLength(bf), approved, tz)
                 ELSE [bf EXCEPT !.pc = "logFatal"]
    /\ UNCHANGED <<clock, ada_scores, upstream, handlers, server, fetcher,
                   ada_scores_backup, error_log, tz, approved>>

\* legacy: ROLLBACK in the catch, then the finally block; a failing
\* ROLLBACK is thrown to the catch of fetchAndUpdateTargetScores. The
\* statement that failed before may have broken the connection, so the
\* ROLLBACK fails or not whatever else has failed.
BfRollback ==
    /\ bf.pc = "rollback"
    /\ \E ok \in BOOLEAN :
        /\ UNCHANGED events
        /\ bf' = IF ok
                 THEN BeginBatch([bf EXCEPT !.clients = @ - 1],
                                 bf.i + BatchLength(bf), approved, tz)
                 ELSE [bf EXCEPT !.clients = @ - 1, !.pc = "logFatal"]
    /\ UNCHANGED <<clock, ada_scores, upstream, handlers, server, fetcher,
                   ada_scores_backup, error_log, tz, approved>>

\* legacy: logErrorToDatabase(null, 'General API Error', ...) of the outer
\* catch; the handler then sends its response
BfLogFatal ==
    /\ bf.pc = "logFatal"
    /\ \E ok \in DbResults :
        /\ DbCall(ok)
        /\ error_log' = LogErrorToDatabase(error_log, NULL, "ERROR", ok)
    /\ bf' = Finish(bf, 1)
    /\ UNCHANGED <<clock, ada_scores, upstream, handlers, server, fetcher,
                   ada_scores_backup, tz, approved>>

\* the zones of the backfill process: three without a transition in the
\* range, one that goes to daylight-saving time at 02:00 local of day 1 and
\* one that leaves it at 02:00 local of day 1
TZChoices ==
    {UTC,
     [name |-> "America/Los_Angeles (PDT)", base |-> -7, at |-> 0, after |-> -7],
     [name |-> "Europe/Berlin (CEST)", base |-> 2, at |-> 0, after |-> 2],
     [name |-> "America/Los_Angeles (PST to PDT)", base |-> -8, at |-> 34, after |-> -7],
     [name |-> "America/Los_Angeles (PDT to PST)", base |-> -7, at |-> 33, after |-> -8]}

\* the approved list holds every site, or every site but the last
ApprovedChoices == {Sites, Sites \ {NumSites}}

\* the history responses of the backfill: those of the sweep, and one
\* whose first entry has a null site_target_percentage
BackfillHistoryChoices ==
    HistoryChoices \cup
    {[ok |-> TRUE, items |-> <<[day |-> 1, hour |-> 0, pct |-> NULL],
                               [day |-> 2, hour |-> 0, pct |-> 90]>>]}

\* the rows of a site before the backfill: none, one per day without a
\* target, or one per day of which only the first has no target
RowPatterns == {"none", "null", "mixed"}

RowsOf(s, pattern) ==
    IF pattern = "none" THEN {}
    ELSE {[id |-> MaxDay * (s - 1) + d, sid |-> s, date |-> d,
           ada_score_total |-> 10 * s,
           site_target_score |-> IF pattern = "null" \/ d = 1 THEN NULL ELSE 70,
           by |-> "pre"] : d \in BackfillDays}

BackfillTables ==
    {UNION {RowsOf(s, f[s]) : s \in Sites} : f \in [Sites -> RowPatterns]}

\* the sites whose history the backfill requests
Requested ==
    IF directory.ok
    THEN {directory.items[k].id : k \in {q \in 1..Len(directory.items) :
                                          directory.items[q].accessibility}}
         \cap approved
    ELSE {}

InitBackfill ==
    /\ clock = MaxDay
    /\ ada_scores \in BackfillTables
    /\ ada_scores_backup = ada_scores
    /\ events = 0
    /\ directory \in DirectoryChoices
    /\ overview = [s \in Sites |-> 200]
    /\ history \in [Sites -> BackfillHistoryChoices]
    /\ a11y = GoodScores
    /\ tz \in TZChoices
    /\ approved \in ApprovedChoices
    \* the history of a site the backfill skips is never requested
    /\ \A s \in Sites \ Requested : ~history[s].ok
    /\ ServerAtRest
    /\ fetch = IdleFetch
    /\ bf = IdleBackfill
    /\ error_log = EmptyBag
    /\ HandlersAtRest

\* requests to /run-batch in a behaviour
MaxRequests == 2

\* a query parameter of /run-batch: a date, or NULL when it is absent or
\* empty
ParamChoices == BackfillDays \cup {NULL}

\* A mutant: the request is refused only when both parameters are missing.
MissingBoth(start, end) == start = NULL /\ end = NULL

\* if (!start || !end)
MissingParams(start, end) == start = NULL \/ end = NULL

\* GET /run-batch: 400 without the two dates, else exec(node batch script
\* start end, callback); the model holds one batch process
RunBatch ==
    /\ Len(rb.reqs) < MaxRequests
    /\ \E start \in ParamChoices : \E end \in ParamChoices : \E fileOk \in BOOLEAN :
        LET k == Len(rb.reqs) + 1
            req == [rb EXCEPT !.reqs = Append(@, [start |-> start, end |-> end])]
        IN  IF MissingParams(start, end)
            THEN /\ rb' = [req EXCEPT !.answers = Append(@, [req |-> k, status |-> 400])]
                 /\ UNCHANGED bf
            ELSE /\ bf.pc = "idle"
                 /\ bf' = StartV2(start, end, fileOk)
                 /\ rb' = [req EXCEPT !.spawns = Append(@, k), !.pending = k]
    /\ UNCHANGED <<clock, ada_scores, events, upstream, server, fetcher,
                   ada_scores_backup, error_log, tz, approved, app, appLog, bulk, patches>>

\* the callback of exec: the process has exited; 500 when exec reports an
\* error (a non-zero exit code), else the completion text
RunBatchExit ==
    /\ rb.pending # 0
    /\ bf.pc = "exited"
    /\ rb' = [rb EXCEPT !.pending = 0,
                        !.answers = Append(@, [req |-> rb.pending,
                                               status |-> IF bf.exit # 0 THEN 500 ELSE 200])]
    /\ UNCHANGED <<clock, ada_scores, events, upstream, server, fetcher, backfill,
                   app, appLog, bulk, patches>>

NextBackfill ==
    \/ BfStartV2
    \/ BfStartLegacy
    \/ BfListSites
    \/ BfHistory
    \/ BfLogFetchErr
    \/ BfConnect
    \/ BfUpdate
    \/ BfBegin
    \/ BfLegacyUpdate
    \/ BfCommit
    \/ BfRollback
    \/ BfLogFatal

SpecBackfill == InitBackfill /\ [][NextBackfill]_vars

\* the server with /run-batch in front of the batch script: the script
\* runs in UTC against a table with a row per site and day, every site is
\* approved
InitRunBatch ==
    /\ clock = MaxDay
    /\ \E pattern \in RowPatterns : ada_scores = UNION {RowsOf(s, pattern) : s \in Sites}
    /\ ada_scores_backup = ada_scores
    /\ events = 0
    /\ directory \in DirectoryChoices
    /\ overview = [s \in Sites |-> 200]
    /\ history \in [Sites -> BackfillHistoryChoices]
    /\ a11y = GoodScores
    /\ tz = UTC
    /\ approved = Sites
    /\ \A s \in Sites \ Requested : ~history[s].ok
    /\ ServerAtRest
    /\ fetch = IdleFetch
    /\ bf = IdleBackfill
    /\ error_log = EmptyBag
    /\ HandlersAtRest

\* the steps of the batch script
BatchRuns ==
    \/ BfListSites
    \/ BfHistory
    \/ BfConnect
    \/ BfUpdate

NextRunBatch ==
    \/ RunBatch
    \/ RunBatchExit
    \/ BatchRuns

SpecRunBatch == InitRunBatch /\ [][NextRunBatch]_vars

\* with its scheduling: a started process keeps running (each awaited
\* request or query completes) and node calls the callback of exec once the
\* child has exited
SpecRunBatchLive ==
    SpecRunBatch /\ WF_vars(BatchRuns) /\ WF_vars(RunBatchExit)

\* ------------------------------------- the first server (app.js): /run-now

\* the frame of a step of the first server that writes no table
AppFrame == <<clock, ada_scores, events, upstream, server, fetcher, backfill, rb, bulk, patches>>

\* "for (const site of batch)" with "continue" for a site that is not
\* approved: the next approved site, or the end of fetchAndInsertRecords
AppNextSite(st, list) ==
    LET k == SkipUnapproved(st.sites, list, st.i + 1, Len(st.sites))
    IN  IF k > Len(st.sites)
        THEN [st EXCEPT !.sweep = "completed", !.pc = "respond"]
        ELSE [st EXCEPT !.i = k, !.pc = "overview"]

\* the handler's promise is rejected (fetchAndInsertRecords threw outside
\* its try block).  What the client gets depends on the express release in
\* use: release 4 does nothing with the rejection and no response is ever
\* sent, release 5 passes it to the error handler, which answers 500.
AppReject(st, answered) ==
    IF answered
    THEN /\ app' = [st EXCEPT !.pc = "idle"]
         /\ appLog' = Append(appLog, [status |-> 500, summary |-> FALSE,
                                      sweep |-> "rejected"])
    ELSE /\ app' = [st EXCEPT !.pc = "idle", !.unanswered = @ + 1]
         /\ UNCHANGED appLog

\* GET /run-now: fetchAndInsertRecords is called and issues the index query
AppRunNow ==
    /\ app.pc = "idle"
    /\ app.requests < MaxRuns
    /\ app' = [IdleApp EXCEPT !.pc = "loadIndex", !.requests = app.requests + 1,
                              !.unanswered = app.unanswered]
    /\ UNCHANGED <<appLog, error_log, AppFrame>>

\* const existingRecords = await fetchExistingRecords(): outside the try
AppLoadIndex ==
    /\ app.pc = "loadIndex"
    /\ \E ok \in DbResults : \E answered \in BOOLEAN :
        /\ DbCall(ok)
        /\ IF ok
           THEN /\ app' = [app EXCEPT !.existingRecords = FetchExistingRecords(ada_scores),
                                      !.pc = "loadApproved"]
                /\ UNCHANGED appLog
           ELSE AppReject([app EXCEPT !.sweep = "rejected"], answered)
    /\ UNCHANGED <<clock, ada_scores, error_log, upstream, server, fetcher,
                   bf, ada_scores_backup, tz, approved, rb, bulk, patches>>

\* const approvedUrls = await loadApprovedUrls(): outside the try; then the
\* directory request is issued
AppLoadApproved ==
    /\ app.pc = "loadApproved"
    /\ \E fileOk \in BOOLEAN : \E answered \in BOOLEAN :
        IF fileOk
        THEN /\ app' = [app EXCEPT !.pc = "listSites"]
             /\ UNCHANGED appLog
        ELSE AppReject([app EXCEPT !.sweep = "rejected"], answered)
    /\ UNCHANGED <<error_log, AppFrame>>

\* the directory response and the filter; a failure goes to the outer catch
AppListSites ==
    /\ app.pc = "listSites"
    /\ app' = IF directory.ok
              THEN AppNextSite([app EXCEPT !.sites = AccessibilitySites(directory.items),
                                           !.i = 0], approved)
              ELSE [app EXCEPT !.sweep = "fatal", !.pc = "logFatal"]
    /\ UNCHANGED <<appLog, error_log, AppFrame>>

\* the dci/overview response of the site: the index lookup and the INSERT,
\* or the site's catch
AppOverview ==
    /\ app.pc = "overview"
    /\ app' = IF overview[app.sites[app.i]] # 200
              THEN [app EXCEPT !.pc = "logSiteErr"]
              ELSE IF RecordKey(app.sites[app.i], clock) \in app.existingRecords
              THEN AppNextSite(app, approved)
              ELSE [app EXCEPT !.pc = "insert"]
    /\ UNCHANGED <<appLog, error_log, AppFrame>>

\* insertScore: INSERT ... ON CONFLICT (sid, date) DO NOTHING, without a
\* target column
AppInsert ==
    /\ app.pc = "insert"
    /\ \E ok \in DbResults :
        /\ DbCall(ok)
        /\ ada_scores' =
             IF ok
             THEN InsertOnConflictDoNothing(ada_scores,
                      [sid |-> app.sites[app.i], date |-> clock,
                       ada_score_total |-> 10 * app.sites[app.i],
                       site_target_score |-> NULL], "app")
             ELSE ada_scores
        /\ app' = IF ok THEN AppNextSite(app, approved)
                  ELSE [app EXCEPT !.pc = "logInsertErr"]
    /\ UNCHANGED <<appLog, clock, error_log, upstream, server, fetcher, backfill, rb, bulk, patches>>

\* the catch blocks: logErrorToDatabase of insertScore (ERROR), of the
\* site (WARNING) and of the outer catch (null site id), which does not
\* rethrow
AppLog ==
    /\ app.pc \in {"logInsertErr", "logSiteErr", "logFatal"}
    /\ \E ok \in DbResults :
        /\ DbCall(ok)
        /\ error_log' = LogErrorToDatabase(error_log,
                            IF app.pc = "logFatal" THEN NULL ELSE app.sites[app.i],
                            IF app.pc = "logSiteErr" THEN "WARNING" ELSE "ERROR", ok)
    /\ app' = IF app.pc = "logFatal" THEN [app EXCEPT !.pc = "respond"]
              ELSE AppNextSite(app, approved)
    /\ UNCHANGED <<appLog, clock, ada_scores, upstream, server, fetcher,
                   bf, ada_scores_backup, tz, approved, rb, bulk, patches>>

\* res.send('ADA scores fetched and inserted.')
AppRespond ==
    /\ app.pc = "respond"
    /\ appLog' = Append(appLog, [status |-> 200, summary |-> FALSE, sweep |-> app.sweep])
    /\ app' = [app EXCEPT !.pc = "idle"]
    /\ UNCHANGED <<error_log, AppFrame>>

InitApp ==
    /\ clock = 1
    /\ \E pre \in SUBSET Sites : ada_scores = {PreRow(s) : s \in pre}
    /\ events = 0
    /\ directory \in DirectoryChoices
    /\ overview \in [Sites -> OverviewChoices]
    /\ history = [s \in Sites |-> [ok |-> FALSE, items |-> <<>>]]
    /\ a11y = GoodScores
    /\ ServerAtRest
    /\ fetch = IdleFetch
    /\ bf = IdleBackfill
    /\ ada_scores_backup = {}
    /\ error_log = EmptyBag
    /\ tz = UTC
    /\ approved \in ApprovedChoices
    /\ HandlersAtRest

NextApp ==
    \/ AppRunNow
    \/ AppLoadIndex
    \/ AppLoadApproved
    \/ AppListSites
    \/ AppOverview
    \/ AppInsert
    \/ AppLog
    \/ AppRespond

SpecApp == InitApp /\ [][NextApp]_vars

\* ------------------------ the UPDATE of the batch script as a function

\* UPDATEs in a list
MaxPatches == 2

\* the UPDATEs a backfill can issue for the first site
PatchChoices == [sid : {1}, date : BackfillDays, score : {80, 90}]

\* a table and a list of UPDATEs; the list is applied in order, and then
\* once more as a second run of the backfill over the same range does
InitPatch ==
    /\ clock = MaxDay
    /\ ada_scores \in BackfillTables
    /\ events = 0
    /\ directory = [ok |-> FALSE, items |-> <<>>]
    /\ overview = [s \in Sites |-> 200]
    /\ history = [s \in Sites |-> [ok |-> FALSE, items |-> <<>>]]
    /\ a11y = GoodScores
    /\ ServerAtRest
    /\ fetch = IdleFetch
    /\ BackfillAtRest
    /\ app = IdleApp /\ appLog = <<>> /\ rb = IdleRunBatch /\ bulk = IdleBulk
    /\ \E n \in 1..MaxPatches : \E todo \in [1..n -> PatchChoices] :
          patches = [todo |-> todo, pass |-> 1, k |-> 1,
                     initial |-> ada_scores, first |-> {}]

\* client.query(UPDATE ada_scores SET site_target_score = $1 WHERE sid = $2
\* AND date = $3 AND site_target_score IS NULL) for the next UPDATE of the
\* list
ApplyPatch ==
    /\ patches.pass \in {1, 2}
    /\ LET u == patches.todo[patches.k]
           last == patches.k = Len(patches.todo)
       IN  /\ ada_scores' = PatchTargetIfMissing(ada_scores, u.sid, u.date, u.score)
           /\ patches' = [patches EXCEPT
                            !.k = IF last THEN 1 ELSE @ + 1,
                            !.pass = IF last THEN @ + 1 ELSE @,
                            !.first = IF last /\ patches.pass = 1 THEN ada_scores' ELSE @]
    /\ UNCHANGED <<clock, events, upstream, server, fetcher, backfill,
                   app, appLog, rb, bulk>>

SpecPatch == InitPatch /\ [][ApplyPatch]_vars

\* ----------------------------- the bulk server (bulkinsert.js): /run-now

\* GET /run-now: fetchAndInsertRecords is called and issues the index query
BulkRunNow ==
    /\ bulk.pc = "idle"
    /\ bulk.requests < MaxRuns
    /\ bulk' = [IdleBulk EXCEPT !.pc = "loadIndex", !.requests = bulk.requests + 1]
    /\ UNCHANGED <<clock, ada_scores, events, upstream, server, fetcher, backfill,
                   app, appLog, rb, patches>>

\* fetchExistingRecords: a failure is caught there and gives an empty set;
\* the set is read with ISO keys only, which it never holds; then the
\* directory request is issued
BulkLoadIndex ==
    /\ bulk.pc = "loadIndex"
    /\ \E ok \in DbResults : DbCall(ok)
    /\ bulk' = [bulk EXCEPT !.pc = "listSites"]
    /\ UNCHANGED <<clock, ada_scores, upstream, server, fetcher, backfill,
                   app, appLog, rb, patches>>

\* the directory response: sites.map(async (site) => ...) runs each async
\* function up to its first await, the overview request of the site
BulkListSites ==
    /\ bulk.pc = "listSites"
    /\ LET items == directory.items
       IN  bulk' = IF ~directory.ok THEN [bulk EXCEPT !.pc = "logFatal"]
                   ELSE [bulk EXCEPT
                           !.sites = items,
                           !.task = [k \in 1..Len(items) |->
                                       IF items[k].accessibility THEN "request" ELSE "done"],
                           !.attempt = [k \in 1..Len(items) |-> 1],
                           !.pc = "sites"]
    /\ UNCHANGED <<clock, ada_scores, events, upstream, server, fetcher, backfill,
                   app, appLog, rb, patches>>

\* one step of the async function of the item at position k: the response
\* to its request inside fetchWithExponentialBackoff, the timer after a
\* 429, or logErrorToDatabase of its catch
BulkTask(k) ==
    /\ bulk.pc = "sites"
    /\ k \in 1..Len(bulk.sites)
    /\ bulk.task[k] # "done"
    /\ LET sid == bulk.sites[k].id
       IN  CASE bulk.task[k] = "request" ->
                  /\ bulk' = IF overview[sid] = 200
                             THEN [bulk EXCEPT !.task[k] = "done",
                                               !.bulkInsertBuffer = Append(@, sid)]
                             ELSE IF RateLimited([status |-> overview[sid]])
                             THEN [bulk EXCEPT !.task[k] = "wait"]
                             ELSE IF overview[sid] = 404
                             THEN [bulk EXCEPT !.task[k] = "done"]
                             ELSE [bulk EXCEPT !.task[k] = "log"]
                  /\ UNCHANGED <<events, error_logs>>
             [] bulk.task[k] = "wait" ->
                  /\ bulk' = IF bulk.attempt[k] + 1 <= DefaultRetries
                             THEN [bulk EXCEPT !.attempt[k] = @ + 1, !.task[k] = "request"]
                             ELSE [bulk EXCEPT !.attempt[k] = @ + 1, !.task[k] = "log"]
                  /\ UNCHANGED <<events, error_logs>>
             [] OTHER ->
                  /\ \E ok \in DbResults :
                        /\ DbCall(ok)
                        /\ error_logs' = LogErrorToDatabase(error_logs, sid, "ERROR", ok)
                  /\ bulk' = [bulk EXCEPT !.task[k] = "done"]
    /\ UNCHANGED <<clock, ada_scores, jobRunning, consoleLog, httpLog, run, runsStarted,
                   ticks, finished, upstream, fetcher, backfill, app, appLog, rb, patches>>

\* Promise.allSettled has resolved: bulkInsertData sends one INSERT with
\* every buffered record and no ON CONFLICT clause (a key that is present
\* or repeated fails the whole statement, which is only printed); then
\* res.send
BulkInsert ==
    /\ bulk.pc = "sites"
    /\ \A k \in 1..Len(bulk.sites) : bulk.task[k] = "done"
    /\ LET buf == bulk.bulkInsertBuffer
           clash == \/ \E k \in 1..Len(buf) : HasRow(ada_scores, buf[k], clock)
                    \/ \E j, k \in 1..Len(buf) : j # k /\ buf[j] = buf[k]
           rows == {[id |-> Cardinality(ada_scores) + k, sid |-> buf[k], date |-> clock,
                     ada_score_total |-> 10 * buf[k], site_target_score |-> NULL,
                     by |-> "bulk"] : k \in 1..Len(buf)}
       IN  IF buf = <<>>
           THEN UNCHANGED <<ada_scores, events>>
           ELSE \E ok \in DbResults :
                  /\ DbCall(ok)
                  /\ ada_scores' = IF ok /\ ~clash THEN ada_scores \cup rows ELSE ada_scores
    /\ bulk' = [bulk EXCEPT !.pc = "idle"]
    /\ UNCHANGED <<clock, upstream, server, fetcher, backfill, app, appLog, rb, patches>>

\* outer catch: logErrorToDatabase(null, 'General API Error', ...); then
\* res.send
BulkLogFatal ==
    /\ bulk.pc = "logFatal"
    /\ \E ok \in DbResults :
        /\ DbCall(ok)
        /\ error_logs' = LogErrorToDatabase(error_logs, NULL, "ERROR", ok)
    /\ bulk' = [bulk EXCEPT !.pc = "idle"]
    /\ UNCHANGED <<clock, ada_scores, jobRunning, consoleLog, httpLog, run, runsStarted,
                   ticks, finished, upstream, fetcher, backfill, app, appLog, rb, patches>>

InitBulk ==
    /\ clock = 1
    /\ \E pre \in SUBSET Sites : ada_scores = {PreRow(s) : s \in pre}
    /\ events = 0
    /\ directory \in DirectoryChoices
    /\ overview \in [Sites -> OverviewChoices \cup {404}]
    /\ history = [s \in Sites |-> [ok |-> FALSE, items |-> <<>>]]
    /\ a11y = GoodScores
    /\ ServerAtRest
    /\ fetch = IdleFetch
    /\ BackfillAtRest
    /\ HandlersAtRest

NextBulk ==
    \/ BulkRunNow
    \/ BulkLoadIndex
    \/ BulkListSites
    \/ \E k \in 1..NumSites : BulkTask(k)
    \/ BulkInsert
    \/ BulkLogFatal

SpecBulk == InitBulk /\ [][NextBulk]_vars

\* ------------------------------------------------ properties of the sweep

\* sweeps k and k + 1 of the history ran in immediate succession on one
\* calendar day: the second handler started after the first had ended, no
\* other handler ran beside either, and no midnight fell between the start
\* of the first and the return of the second
Succession(k) ==
    /\ finished[k + 1].seq = finished[k].seq + 1
    /\ finished[k].solo
    /\ finished[k + 1].solo
    /\ finished[k].day0 = finished[k + 1].day1

NoInsertError(f) == f.stats.insertErrors = 0

AllOverviewOk(f) == \A p \in 1..Len(f.sites) : overview[f.sites[p]] = 200

Positions(f) == 1..Len(f.out)

\* C1: the score table never holds two rows with the same (sid, date),
\* whatever sweeps and backfill updates have run and however a manual and
\* a scheduled sweep interleave.
C1_Uniqueness ==
    \A r1 \in ada_scores : \A r2 \in ada_scores :
        (r1.sid = r2.sid /\ r1.date = r2.date) => r1 = r2

\* a manual sweep, running beside a scheduled one, has sent its INSERT for
\* a key whose row the scheduled sweep had created
C1_Witness ==
    /\ ~run["manual"].solo
    /\ \E k \in 1..Len(run["manual"].out) :
        /\ run["manual"].out[k].res = "skipped"
        /\ \E row \in ada_scores :
            /\ row.sid = run["manual"].out[k].sid
            /\ row.date = run["manual"].out[k].date
            /\ row.by = "cron"

C3_SingleFlight ==
    Cardinality({r \in Runners : InSweep(r)}) <= 1

\* C4: a cron tick that arrives while the scheduled run is active writes
\* the skip line and changes neither the flag nor any sweep, and a
\* scheduled run starts only in the step of a tick that found the flag
\* clear (a skipped tick is not queued to start a run later).
C4_SkipNotQueued ==
    [][/\ (jobRunning /\ ticks' # ticks) =>
            /\ consoleLog' = Append(consoleLog, "skip")
            /\ jobRunning' = jobRunning
            /\ run' = run
            /\ runsStarted' = runsStarted
            /\ ada_scores' = ada_scores
       /\ (run["cron"].pc = "idle" /\ run'["cron"].pc # "idle") =>
            /\ ~jobRunning
            /\ ticks' = ticks + 1]_vars

\* a tick has been skipped during a scheduled sweep that is still running
C4_Witness ==
    /\ jobRunning
    /\ InSweep("cron")
    /\ consoleLog # <<>>
    /\ consoleLog[Len(consoleLog)] = "skip"

\* C5: in a sweep in which a site failed on its overview request with a
\* non-throttle HTTP error, every site was attempted, and every other site
\* whose own overview request succeeded was written: unless its own INSERT
\* failed in the database its row is in the table, created by this sweep
\* if it had none.
C5_Isolation ==
    \A k \in 1..Len(finished) :
        LET f == finished[k] IN
        (\E q \in 1..Len(f.sites) : overview[f.sites[q]] = 500) =>
            /\ f.stats.processed = Len(f.sites)
            /\ Len(f.out) = Len(f.sites)
            /\ \A p \in 1..Len(f.sites) :
                overview[f.sites[p]] = 200 =>
                    /\ f.out[p].sid = f.sites[p]
                    /\ f.out[p].res \in {"inserted", "skipped", "error"}
                    /\ f.out[p].res # "error" =>
                          HasRow(ada_scores, f.out[p].sid, f.out[p].date)
                    /\ (f.out[p].res # "error" /\ ~f.out[p].had) =>
                          /\ f.out[p].res = "inserted"
                          /\ \E row \in ada_scores :
                                /\ row.sid = f.out[p].sid
                                /\ row.date = f.out[p].date
                                /\ row.by = f.who

\* a sweep whose first site failed with status 500 and whose second site
\* was inserted
C5_Witness ==
    \E k \in 1..Len(finished) :
        LET f == finished[k] IN
        /\ Len(f.sites) = NumSites
        /\ overview[f.sites[1]] = 500
        /\ f.out[1].res = "failed"
        /\ f.out[Len(f.out)].res = "inserted"

Headerless(i) == fetch.waits[i].retryAfter = "undefined"

\* C8: over the 429 responses of one call that carry no Retry-After header,
\* the waits of fetchWithExponentialBackoff never decrease from one to a
\* later one, and the number of waits of the call never exceeds the
\* retries argument.
C8_Backoff ==
    /\ \A i \in 1..Len(fetch.waits) : \A j \in 1..Len(fetch.waits) :
        (i < j /\ Headerless(i) /\ Headerless(j))
            => fetch.waits[i].ms <= fetch.waits[j].ms
    /\ Len(fetch.waits) <= fetch.retries

\* a call with retries = 3 answered by three 429 without the header: it
\* waited 1000, 2000 and 4000 ms and gave up
C8_Witness ==
    /\ fetch.pc = "maxRetries"
    /\ fetch.retries = 3
    /\ Len(fetch.waits) = 3
    /\ \A i \in 1..3 : Headerless(i)
    /\ fetch.waits[1].ms = DefaultDelay
    /\ fetch.waits[2].ms = 2 * DefaultDelay
    /\ fetch.waits[3].ms = 4 * DefaultDelay

\* --------------------------------------------- properties of the backfill

\* C6: the UPDATE of the batch script, executed for a row whose target is
\* not NULL, leaves the row as it is whatever the score, and reports zero
\* rows affected.
C6_NullPreservingPatch ==
    [][bf.pc = "update" =>
        LET u == bf.updates[bf.j]
        IN  \A row \in ada_scores :
              (row.sid = u.sid /\ row.date = u.date /\ row.site_target_score # NULL)
                 => /\ row \in ada_scores'
                    /\ ada_scores' = ada_scores
                    /\ bf'.rowCount \in {0, NULL}]_vars

\* the first UPDATE of a batch was executed for a row that held the target
\* 70 with another score: the row still holds 70 and no row was affected
C6_Witness ==
    /\ bf.pc = "update"
    /\ bf.j = 2
    /\ bf.rowCount = 0
    /\ bf.updates[1].score # 70
    /\ \E row \in ada_scores :
        /\ row.sid = bf.updates[1].sid
        /\ row.date = bf.updates[1].date
        /\ row.site_target_score = 70

\* the row of table `after` with the identity of `row`
SameRow(row, after) ==
    \E r \in after :
        /\ r.id = row.id
        /\ r.sid = row.sid
        /\ r.date = row.date
        /\ r.ada_score_total = row.ada_score_total
        /\ row.site_target_score # NULL => r.site_target_score = row.site_target_score

\* C7: in every step of every writer, each persisted row keeps its
\* compliance fields and a target that is not NULL keeps its value.
C7_RowsImmutable ==
    [][/\ \A row \in ada_scores : SameRow(row, ada_scores')
       /\ \A row \in ada_scores_backup : SameRow(row, ada_scores_backup')]_vars

\* C9: the entry the backfill selects for a site and a day is the first
\* entry whose timestamp is written with that day, and none is selected
\* when no timestamp is written with that day, in every time zone.
C9_DateReconciliation ==
    bf.found.sid # 0 =>
        LET items == history[bf.found.sid].items
            written == {k \in 1..Len(items) : items[k].day = bf.found.date}
        IN  IF written = {} THEN bf.found.k = 0
            ELSE bf.found.k \in written /\ \A o \in written : bf.found.k <= o

\* the history of site s holds an entry written with day d whose
\* percentage is a number
NumericEntry(s, d) ==
    /\ history[s].ok
    /\ \E k \in 1..Len(history[s].items) :
        history[s].items[k].day = d /\ history[s].items[k].pct # NULL

\* the days of the range of the run
RangeDays == {d \in BackfillDays : bf.startDate <= 24 * d /\ 24 * d <= bf.endDate}

\* the sites of the directory the run listed
ListedSites == {bf.sites[q] : q \in 1..Len(bf.sites)}

\* the entries of the miss report written under day d
ReportOf(d) ==
    IF \E f \in bf.csv : f.date = d
    THEN (CHOOSE f \in bf.csv : f.date = d).lines
    ELSE <<>>

\* C11 (as claimed): when the batch script has completed a range, the
\* patches it issued are those of the (site, day) pairs of the range whose
\* history holds a numeric entry written with that day, and the report of
\* each day holds one entry for each site without such an entry.
C11_BackfillRange ==
    (bf.variant = "v2" /\ bf.pc = "exited" /\ bf.exit = 0) =>
        /\ {<<u.sid, u.date>> : u \in bf.issued} =
              {p \in ListedSites \X RangeDays : NumericEntry(p[1], p[2])}
        /\ \A d \in RangeDays : \A s \in ListedSites :
              Cardinality({q \in 1..Len(ReportOf(d)) : ReportOf(d)[q].sid = s}) =
                  IF NumericEntry(s, d) THEN 0 ELSE 1

\* the first and the last calendar day of the range of the run
StartDay == bf.startDate \div 24
EndDay == bf.endDate \div 24

\* C12 (as claimed): the k-th day the backfill processes is startDate + k
\* days, and a completed run of the batch script has processed every day up
\* to endDate, in every time zone.
C12_EveryDayOnce ==
    /\ \A k \in 1..Len(bf.days) : bf.days[k] = StartDay + k - 1
    /\ (bf.variant = "v2" /\ bf.pc = "exited" /\ bf.exit = 0 /\ StartDay <= EndDay)
          => Len(bf.days) = EndDay - StartDay + 1

\* C13: a request answered by a failure that is not a 429 ends the call
\* with that error in the same step: no wait is added and no request is
\* issued, and the next step of the fetcher is the entry of a new call.
C13_NoRetryOfOtherErrors ==
    [][/\ (fetch.pc = "request" /\ fetch'.last \notin {200, 429})
            => /\ fetch'.pc = "thrown"
               /\ fetch'.waits = fetch.waits
               /\ fetch'.requests = fetch.requests
       /\ fetch.pc = "thrown"
            => fetch'.attempt = 1 /\ fetch'.waits = <<>>]_vars

\* the second request of a call was answered 500: the call has thrown
\* after its single wait
C13_Witness ==
    /\ fetch.pc = "thrown"
    /\ fetch.last = 500
    /\ fetch.requests = 2
    /\ Len(fetch.waits) = 1

\* the call is over: it returned or it threw
FetchOver == fetch.pc \in {"returned", "thrown", "maxRetries"}

\* C14: a call issues at most `retries` requests; it returns only on a
\* 200, which is the answer to its last request, all earlier ones being
\* 429; it throws 'Max retries exceeded' exactly after `retries` requests
\* all answered 429; and every call in progress comes to its end.
C14_Terminates ==
    /\ [](/\ fetch.requests <= fetch.retries
          /\ fetch.pc = "returned"
                => fetch.last = 200 /\ Len(fetch.waits) = fetch.requests - 1
          /\ fetch.pc = "maxRetries"
                => /\ fetch.requests = fetch.retries
                   /\ Len(fetch.waits) = fetch.retries
                   /\ fetch.last # 200)
    /\ (fetch.pc \in {"request", "waiting"}) ~> FetchOver

\* a call with the default retries, answered 429 five times, has failed
\* with the max-retries error
C14_Witness ==
    /\ fetch.pc = "maxRetries"
    /\ fetch.retries = DefaultRetries
    /\ fetch.requests = DefaultRetries
    /\ Len(fetch.waits) = DefaultRetries

\* -------------------------------------- properties of the failure handling

\* the site handler r is working on
CurrentSite(r) == run[r].sites[run[r].i]

\* C15 (as claimed): a site whose overview request is answered 429 goes to
\* the site's catch only after the retry budget of the fetcher is spent on
\* its overview.
C15_ThrottledOverviewRetried ==
    \A r \in Runners :
        (run[r].pc = "logSiteErr" /\ overview[CurrentSite(r)] = 429)
            => run[r].tries = DefaultRetries

\* the INFO row of site s
InfoRow(s) == [site_id |-> s, level |-> "INFO"]

\* C20: a sweep whose target-history request fails, or finds no entry for
\* today, goes on with the site: the target is null, the INFO row of the
\* site is written once (when the database takes it) and the INSERT is
\* attempted; the row it inserts has the overview scores and a null target.
C20_TargetBestEffort ==
    [][\A r \in Runners :
        LET st == run[r]
            after == run'[r]
        IN  after.pc # st.pc =>
            /\ (st.pc = "target" /\ (~history[CurrentSite(r)].ok
                    \/ TodayTarget(history[CurrentSite(r)].items, clock) = 0))
                  => /\ after.pc = "logTarget"
                     /\ after.i = st.i
                     /\ after.siteTarget = NULL
            /\ st.pc = "logTarget"
                  => /\ after.pc = "insert"
                     /\ after.i = st.i
                     /\ after.siteTarget = NULL
                     /\ \/ error_logs' = error_logs (+) SetToBag({InfoRow(CurrentSite(r))})
                        \/ error_logs' = error_logs /\ events' = events + 1
            /\ (st.pc = "insert" /\ st.siteTarget = NULL /\ after.pc # "logInsertErr"
                   /\ ~HasRow(ada_scores, CurrentSite(r), st.today))
                  => \E row \in ada_scores' :
                        /\ row.sid = CurrentSite(r)
                        /\ row.date = st.today
                        /\ row.ada_score_total = 10 * CurrentSite(r)
                        /\ row.site_target_score = NULL]_vars

\* a completed sweep that met a failing target request: the site's row is
\* in the table with a null target and the INFO row is in the log
C20_Witness ==
    \E k \in 1..Len(finished) : \E p \in 1..Len(finished[k].out) :
        LET o == finished[k].out[p]
        IN  /\ o.res = "inserted"
            /\ ~history[o.sid].ok
            /\ finished[k].stats.targetErrors > 0
            /\ BagIn(InfoRow(o.sid), error_logs)
            /\ \E row \in ada_scores :
                /\ row.sid = o.sid /\ row.date = o.date
                /\ row.site_target_score = NULL

\* the steps in which fetchAndInsertRecords throws to its caller
Throws(r) == InSweep(r) /\ run'[r].pc = "idle"

\* C16 (as claimed): every failure of a sweep is recorded in the error log
\* before the sweep returns or throws: a step in which the sweep throws
\* leaves an error-log row that was written for this failure, in that step
\* (the fatal catch) and never only a console line.
C16_FailureLogged ==
    [][\A r \in Runners :
          Throws(r) => BagCardinality(error_logs') > BagCardinality(error_logs)]_vars

\* C17 (as claimed): the only failure that aborts a whole sweep is the
\* directory-listing failure: a sweep throws to its caller only out of the
\* fatal catch after a failed directory request, and no site was processed.
C17_OnlyDirectoryIsFatal ==
    [][\A r \in Runners :
          Throws(r) => /\ run[r].pc = "logFatal"
                       /\ ~directory.ok
                       /\ run[r].out = <<>>]_vars

\* ------------------------------------------- properties of /run-batch

\* the responses to the request numbered k
AnswersTo(k) == {a \in 1..Len(rb.answers) : rb.answers[a].req = k}

\* the processes started for the request numbered k
SpawnsOf(k) == {p \in 1..Len(rb.spawns) : rb.spawns[p] = k}

RunBatchSafe ==
    \A k \in 1..Len(rb.reqs) :
        IF rb.reqs[k].start = NULL \/ rb.reqs[k].end = NULL
        THEN /\ SpawnsOf(k) = {}
             /\ Cardinality(AnswersTo(k)) = 1
             /\ \A a \in AnswersTo(k) : rb.answers[a].status = 400
        ELSE /\ Cardinality(SpawnsOf(k)) = 1
             /\ Cardinality(AnswersTo(k)) <= 1
             /\ AnswersTo(k) = {} <=> rb.pending = k
             /\ \A a \in AnswersTo(k) : /\ bf.pc = "exited"
                                         /\ rb.answers[a].status # 400

\* C19: a /run-batch request without start or without end is answered 400
\* and starts no process; a request with both starts exactly one process
\* and has exactly one response, sent after the process has exited (never
\* before, and eventually once the process runs).
C19_RunBatch ==
    /\ []RunBatchSafe
    /\ \A k \in 1..MaxRequests : (rb.pending = k) ~> (AnswersTo(k) # {})

\* both kinds of request have been answered: one refused, one that ran the
\* batch process to its exit
C19_Witness ==
    /\ RunBatchSafe
    /\ \E k \in 1..Len(rb.reqs) : \E a \in AnswersTo(k) : rb.answers[a].status = 400
    /\ \E k \in 1..Len(rb.reqs) :
          /\ rb.reqs[k].start # NULL /\ rb.reqs[k].end # NULL
          /\ SpawnsOf(k) # {}
          /\ \E a \in AnswersTo(k) : rb.answers[a].status = 200
    /\ bf.variant = "v2" /\ bf.issued # {}

\* ----------------------------------- properties of /run-now (first server)

\* C18 (as claimed): every /run-now request has exactly one response: 200
\* with the summary of the counters when the sweep completed, and a response
\* that differs from it when the sweep aborted; no request is left
\* unanswered.
C18_RunNowAnswered ==
    /\ app.unanswered = 0
    /\ Len(appLog) = app.requests - (IF app.pc = "idle" THEN 0 ELSE 1)
    /\ \A k \in 1..Len(appLog) :
          IF appLog[k].sweep = "completed"
          THEN appLog[k].status = 200 /\ appLog[k].summary
          ELSE appLog[k].status # 200

\* ------------------------------------- properties of the index (sweep)

\* the key the index holds for a row (sid, date) that was in the table when
\* the index was loaded
LoadedKey(sid, date) == RowKey([sid |-> sid, date |-> date])

\* C21 (as claimed): a record whose row was in the table when the sweep
\* loaded its index is answered from the index: insertScore returns before
\* its INSERT, so the sweep never stands at the INSERT for such a record.
C21_LoadedRowHitsIndex ==
    \A r \in Runners :
        run[r].pc = "insert"
            => LoadedKey(CurrentSite(r), run[r].today) \notin run[r].existingRecords

\* the records of the sweep of r so far that went through insertScore and
\* found the row present or created it
Settled(r) ==
    {k \in 1..Len(run[r].out) : run[r].out[k].res \in {"inserted", "skipped"}}

\* C22 (as claimed): within one sweep no second INSERT is issued for a key:
\* once a record of the sweep found its row present or created it, the
\* sweep never stands at the INSERT for a record with the same key.
C22_OneInsertPerKey ==
    \A r \in Runners :
        run[r].pc = "insert"
            => \A k \in Settled(r) :
                  ~(run[r].out[k].sid = CurrentSite(r) /\ run[r].out[k].date = run[r].today)

\* ------------------------------ properties of the parsed values (sweep)

\* C26 (as claimed): a site whose total (or a sub-score) does not parse as
\* an integer is aborted: no INSERT is attempted for its record.
C26_ScoreParseAborts ==
    \A r \in Runners : run[r].pc = "insert" => run[r].total # NaN

\* C27 (as claimed): a matched history entry whose percentage does not
\* parse as a number gives the result of no match: the sweep writes a null
\* target, so no row holds a NaN target and no INSERT carries one.
C27_TargetParseIsNoTarget ==
    /\ \A row \in ada_scores : row.site_target_score # NaN
    /\ \A r \in Runners : run[r].pc = "insert" => run[r].siteTarget # NaN

\* --------------------------------------- properties of the site list

\* the positions of the directory items whose product list has
\* "accessibility"
Accessible == {k \in 1..Len(directory.items) : directory.items[k].accessibility}

\* the place of the item at position k among the accessible items
Rank(k) == Cardinality({j \in Accessible : j <= k})

\* sites is the accessible items of the directory in the directory's order
Listed(sites) ==
    /\ Len(sites) = Cardinality(Accessible)
    /\ \A k \in Accessible : sites[Rank(k)] = directory.items[k].id

\* C25: the site list of a sweep is exactly the directory items with
\* "accessibility", in the directory's order; with an empty list the sweep
\* returns statistics that are all zero and no error-log row is written.
C25_SiteList ==
    /\ \A r \in Runners :
          run[r].pc \in SweepPcs \ {"loadIndex", "listSites", "logFatal"}
              => Listed(run[r].sites)
    /\ \A k \in 1..Len(finished) :
          /\ Listed(finished[k].sites)
          /\ finished[k].stats.sitesPulled = Len(finished[k].sites)
          /\ finished[k].sites = <<>>
                => finished[k].stats = ZeroStats /\ finished[k].out = <<>>
    /\ (directory.ok /\ Accessible = {}) => error_logs = EmptyBag

\* a sweep has returned over a directory of which one item was filtered
\* out and the rest was kept
C25_Witness ==
    \E k \in 1..Len(finished) :
        /\ finished[k].sites # <<>>
        /\ Len(finished[k].sites) < Len(directory.items)
        /\ Listed(finished[k].sites)

\* --------------------------------- properties of the order of the sites

\* the directory items of the bulk server whose request is outstanding
Outstanding == {k \in 1..Len(bulk.sites) : bulk.task[k] = "request"}

\* C24 (as claimed): within one sweep the sites are attempted one at a
\* time in discovery order: at most one upstream request is outstanding,
\* and the site at position k + 1 is not begun before the site at position
\* k is finished.
C24_OneSiteAtATime ==
    /\ Cardinality(Outstanding) <= 1
    /\ \A k \in 1..(Len(bulk.sites) - 1) :
          bulk.task[k + 1] \in {"request", "wait", "log"} => bulk.task[k] = "done"

\* ------------------------------------ properties of the backfill UPDATE

\* the table after the UPDATEs of list are applied to table in the order
\* order (a sequence of positions of list)
RECURSIVE ApplyInOrder(_, _, _)
ApplyInOrder(table, list, order) ==
    IF order = <<>> THEN table
    ELSE ApplyInOrder(PatchTargetIfMissing(table, list[Head(order)].sid,
                                           list[Head(order)].date, list[Head(order)].score),
                      list, Tail(order))

\* the orders in which the UPDATEs of a list of n can be applied
Orders(n) == {f \in [1..n -> 1..n] : \A i, j \in 1..n : f[i] = f[j] => i = j}

\* no two UPDATEs of the list carry different scores for one row
Agreeing(list) ==
    \A i, j \in 1..Len(list) :
        (list[i].sid = list[j].sid /\ list[i].date = list[j].date)
            => list[i].score = list[j].score

\* C23 (as claimed): the patch is idempotent and order-independent: the
\* second run leaves the table as the first run left it, and the UPDATEs of
\* the list applied in any order give the table the given order gives.
C23_PatchOrderIndependent ==
    /\ patches.pass = 2 => ada_scores = patches.first
    /\ patches.pass = 3 =>
          /\ ada_scores = patches.first
          /\ \A f \in Orders(Len(patches.todo)) :
                ApplyInOrder(patches.initial, patches.todo, f) = patches.first

\* C23 (amended): the patch is idempotent: no UPDATE of a second run over
\* the same list changes the table; and the UPDATEs of a list in which no
\* two carry different scores for one row give the same table in any order
\* (of two UPDATEs with different scores for one row the first applied
\* stays).
C23_PatchIdempotent ==
    /\ patches.pass = 2 => ada_scores = patches.first
    /\ patches.pass = 3 =>
          /\ ada_scores = patches.first
          /\ Agreeing(patches.todo) =>
                \A f \in Orders(Len(patches.todo)) :
                    ApplyInOrder(patches.initial, patches.todo, f) = patches.first

\* a list of two different UPDATEs that agree has been applied twice and
\* the first run changed the table
C23_Witness ==
    /\ patches.pass = 3
    /\ Len(patches.todo) = 2
    /\ patches.todo[1] # patches.todo[2]
    /\ Agreeing(patches.todo)
    /\ patches.first # patches.initial
    /\ ada_scores = patches.first

\* --------------------------------- properties of the backfill's failures

\* the miss entries with a fetch-error reason that st holds for site s on
\* day d, in the buffer or in the report written under d
FetchMisses(st, s, d) ==
    LET e == [sid |-> s, date |-> d, reason |-> "Fetch error"]
        report == IF \E f \in st.csv : f.date = d
                  THEN (CHOOSE f \in st.csv : f.date = d).lines
                  ELSE <<>>
    IN  Cardinality({q \in 1..Len(st.missingTargetLogs) : st.missingTargetLogs[q] = e})
        + Cardinality({q \in 1..Len(report) : report[q] = e})

\* C28 (as claimed): in a backfill the failure of a site's history request
\* on a day leaves a miss entry with the fetch-error reason for that site
\* and day, and the run goes on: the step neither ends the run with a fatal
\* error nor goes to the fatal catch.
C28_FetchFailureIsAMiss ==
    [][(bf.pc = "history" /\ ~history[bf.sites[bf.n]].ok) =>
          /\ FetchMisses(bf', bf.sites[bf.n], DateStr(bf.current)) >= 1
          /\ bf'.pc # "logFatal"
          /\ bf'.exit # 1]_vars

\* C29: when the directory request of the batch script fails, the process
\* exits at once with a non-zero code: no day was processed, no UPDATE was
\* issued, no report was written and the table is as it was.
C29_DirectoryFailureIsFatal ==
    (bf.variant = "v2" /\ ~directory.ok /\ bf.pc # "listSites") =>
        /\ bf.pc = "exited"
        /\ bf.exit > 0
        /\ bf.days = <<>>
        /\ bf.issued = {}
        /\ bf.csv = {} /\ bf.missingTargetLogs = <<>>
        /\ ada_scores = ada_scores_backup

\* the batch script has exited after its directory request failed
C29_Witness ==
    /\ bf.variant = "v2"
    /\ ~directory.ok
    /\ bf.pc = "exited"
    /\ bf.exit = 1
    /\ bf.sites = <<>>
    /\ ada_scores # {}

\* the (sid, date) keys of a table
Keys(table) == {<<row.sid, row.date>> : row \in table}

C31_BufferIsPerDay ==
    /\ [](/\ \A q \in 1..Len(bf.missingTargetLogs) :
                bf.pc \notin {"exited", "responded"} =>
                    bf.missingTargetLogs[q].date = DateStr(bf.current)
          /\ Len(bf.missingTargetLogs) <= Len(bf.sites)
          /\ \A f \in bf.csv : \A q \in 1..Len(f.lines) : f.lines[q].date = f.date)
    /\ [][Len(bf'.days) > Len(bf.days) => bf'.missingTargetLogs = <<>>]_vars

\* a first day's report has been written and the buffer holds a miss of a
\* later day
C31_Witness ==
    /\ Len(bf.days) >= 2
    /\ Len(bf.missingTargetLogs) > 0
    /\ \E f \in bf.csv :
          /\ Len(f.lines) > 0
          /\ f.date = bf.days[1]
          /\ f.date # bf.missingTargetLogs[1].date

\* ------------------------------------------ properties of the sweep's writes

\* C32: an INSERT that meets a row of its key, and that the database does
\* not fail, counts the site as skipped: skippedExisting grows by one,
\* inserted and insertErrors stay, no error-log row is written and the
\* table, the existing row included, is as it was.
C32_ConflictIsSkip ==
    [][\A r \in Runners :
        (/\ run[r].pc = "insert"
         /\ run'[r].pc # run[r].pc
         /\ events' = events
         /\ HasRow(ada_scores, run[r].sites[run[r].i], run[r].today)) =>
            /\ run'[r].stats.skippedExisting = run[r].stats.skippedExisting + 1
            /\ run'[r].stats.inserted = run[r].stats.inserted
            /\ run'[r].stats.insertErrors = run[r].stats.insertErrors
            /\ run'[r].pc # "logInsertErr"
            /\ error_logs' = error_logs
            /\ ada_scores' = ada_scores]_vars

\* a sweep has skipped at write time a site whose row the other sweep
\* created after this one had loaded its index
C32_Witness ==
    \E r \in Runners : \E q \in 1..Len(run[r].out) :
        /\ run[r].out[q].res = "skipped"
        /\ run[r].out[q].had
        /\ RecordKey(run[r].out[q].sid, run[r].out[q].date) \notin run[r].existingRecords
        /\ \E row \in ada_scores :
              /\ row.sid = run[r].out[q].sid
              /\ row.date = run[r].out[q].date
              /\ row.by \in Runners \ {r}
        /\ run[r].stats.insertErrors = 0
        /\ error_logs = EmptyBag

\* the ERROR row of site s
ErrorRow(s) == [site_id |-> s, level |-> "ERROR"]

\* C33: an INSERT that the database fails is counted in insertErrors and
\* nowhere else, writes no row and adds no key to the index; the failure is
\* then logged for the site at level ERROR (the row is written when the
\* database takes it), and the sweep goes on with the next site, or
\* returns its statistics after the last one.
C33_InsertFailure ==
    [][\A r \in Runners :
        LET st == run[r]
            after == run'[r]
        IN  after.pc # st.pc =>
            /\ (st.pc = "insert"
                /\ (events' = events + 1 \/ ~IntegerAccepts(st.total)))
                  => /\ after.pc = "logInsertErr"
                     /\ after.i = st.i
                     /\ after.stats = [st.stats EXCEPT !.insertErrors = @ + 1]
                     /\ after.existingRecords = st.existingRecords
                     /\ ada_scores' = ada_scores
            /\ st.pc = "logInsertErr"
                  => /\ \/ error_logs' = error_logs (+) SetToBag({ErrorRow(CurrentSite(r))})
                        \/ error_logs' = error_logs /\ events' = events + 1
                     /\ after.stats.insertErrors = st.stats.insertErrors
                     /\ after.existingRecords = st.existingRecords
                     /\ RecordKey(CurrentSite(r), st.today) \notin after.existingRecords
                     /\ ada_scores' = ada_scores
                     /\ IF st.i < Len(st.sites)
                        THEN after.pc = "overview" /\ after.i = st.i + 1
                        ELSE after.pc = "after"]_vars

\* a completed sweep whose INSERT for its first site failed: the failure
\* is counted and logged and the next site was inserted
C33_Witness ==
    \E k \in 1..Len(finished) :
        LET f == finished[k] IN
        /\ Len(f.out) = NumSites
        /\ f.out[1].res = "error"
        /\ f.stats.insertErrors = 1
        /\ BagIn(ErrorRow(f.out[1].sid), error_logs)
        /\ ~HasRow(ada_scores, f.out[1].sid, f.out[1].date)
        /\ f.out[NumSites].res = "inserted"
        /\ HasRow(ada_scores, f.out[NumSites].sid, f.out[NumSites].date)

\* ------------------------------------------ properties of the fetcher's waits

\* the delay argument of the call in progress: the delay has doubled once
\* per attempt begun after the first
FirstDelay == fetch.delay \div (2 ^ (fetch.attempt - 1))

\* the Retry-After header of the 429 before the wait at position i is
\* absent
NoRetryAfter(i) == fetch.waits[i].retryAfter = "undefined"

\* the Retry-After header of the 429 before the wait at position i has a
\* value: a number of seconds or an HTTP date
HasRetryAfter(i) == fetch.waits[i].retryAfter \notin {"undefined", ""}

\* the header-less waits of a call are the delay argument times
\* 2^(k - 1), the base being 1000 ms by default
HeaderlessWaitsDouble ==
    \A i \in 1..Len(fetch.waits) :
        NoRetryAfter(i) =>
            /\ fetch.waits[i].ms = FirstDelay * (2 ^ (i - 1))
            /\ FirstDelay = DefaultDelay => fetch.waits[i].ms = 1000 * (2 ^ (i - 1))

\* C34 (as claimed): the wait after the k-th consecutive 429 of a call is
\* the time the Retry-After header asks for when the header has a value (a
\* number of milliseconds, 1000 per second of a header in seconds), and
\* else the base delay times 2^(k - 1).
C34_WaitTimes ==
    /\ HeaderlessWaitsDouble
    /\ \A i \in 1..Len(fetch.waits) :
          HasRetryAfter(i) =>
              /\ fetch.waits[i].ms # NaN
              /\ fetch.waits[i].retryAfter \in {"0", "2"}
                    => fetch.waits[i].ms = 1000 * ParseInt(fetch.waits[i].retryAfter)

\* ---------------------------------- properties of the backfill's batch update

\* the table after the updates k..Len(updates) of a batch, each as the
\* legacy UPDATE statement
RECURSIVE AllApplied(_, _, _)
AllApplied(table, updates, k) ==
    IF k > Len(updates) THEN table
    ELSE AllApplied(LegacyUpdateTarget(table, updates[k].sid, updates[k].date,
                                       updates[k].score),
                    updates, k + 1)

\* C35: a call of the legacy batchUpdateSiteTargetScores is all or
\* nothing: the table changes only in the step of a successful COMMIT, to
\* the table with every update of the batch applied; before it, and when a
\* statement of the call fails, no update of the batch is visible.
C35_AllOrNothing ==
    [][bf.variant = "legacy" =>
        /\ ada_scores_backup' # ada_scores_backup
              => /\ bf.pc = "commit"
                 /\ ~bf.failed
                 /\ bf'.pc # "rollback"
                 /\ ada_scores_backup' = AllApplied(ada_scores_backup, bf.updates, 1)
        /\ (bf.pc \in {"begin", "legacyUpdate", "rollback"} \/ bf'.pc = "rollback")
              => ada_scores_backup' = ada_scores_backup]_vars

\* the second UPDATE of a batch of two failed after the first had changed
\* a row inside the transaction; the call has rolled back and the table
\* is as it was
C35_Witness ==
    /\ bf.variant = "legacy"
    /\ bf.failed
    /\ bf.pc \notin {"rollback", "legacyUpdate", "commit"}
    /\ bf.clients = 0
    /\ Len(bf.updates) = 2
    /\ bf.j = 2
    /\ bf.txn # ada_scores_backup
    /\ ada_scores_backup = ada_scores

\* ------------------------------------------ properties of the statistics

\* the number of sites of a sweep whose outcome is res
Count(out, res) == Cardinality({q \in 1..Len(out) : out[q].res = res})

\* the counters of a sweep agree with the outcomes of its sites: a site
\* has one outcome once it is done and none before, each outcome is counted
\* in its own counter, and a sweep that returns has done every site
Accounted(stats, out, returned) ==
    /\ stats.inserted = Count(out, "inserted")
    /\ stats.skippedExisting = Count(out, "skipped")
    /\ stats.insertErrors = Count(out, "error")
    /\ stats.inserted + stats.skippedExisting + stats.insertErrors
          + Count(out, "failed") = Len(out)
    /\ Len(out) <= stats.processed
    /\ stats.processed <= Len(out) + 1
    /\ stats.inserted + stats.skippedExisting + stats.insertErrors <= stats.processed
    /\ stats.processed <= stats.sitesPulled
    /\ returned => /\ stats.processed = stats.sitesPulled
                   /\ Len(out) = stats.processed

\* C36: at every point of a sweep each attempted site has exactly one
\* outcome, counted once, so inserted + skippedExisting + insertErrors <=
\* processed <= sitesPulled, and processed = sitesPulled when the sweep
\* returns its statistics.
C36_Accounting ==
    /\ \A r \in Runners : Accounted(run[r].stats, run[r].out, run[r].pc = "after")
    /\ \A k \in 1..Len(finished) : Accounted(finished[k].stats, finished[k].out, TRUE)

\* a sweep over three sites has returned with a site skipped by the index
\* and a site that failed in its catch
C36_Witness ==
    \E k \in 1..Len(finished) :
        LET f == finished[k] IN
        /\ f.stats.sitesPulled = NumSites + 1
        /\ f.stats.skippedExisting > 0
        /\ Count(f.out, "failed") > 0
        /\ f.stats.inserted > 0

\* the sum of the inserted counters of the sweeps of runner r among the
\* first k returned sweeps
RECURSIVE ReturnedInserted(_, _)
ReturnedInserted(r, k) ==
    IF k = 0 THEN 0
    ELSE ReturnedInserted(r, k - 1)
         + (IF finished[k].who = r THEN finished[k].stats.inserted ELSE 0)

\* the inserted counters of runner r: of its returned sweeps and of its
\* sweep in progress
InsertedBy(r) ==
    ReturnedInserted(r, Len(finished))
    + (IF run[r].pc \in SweepPcs THEN run[r].stats.inserted ELSE 0)

\* the rows runner r created
RowsBy(r) == {row \in ada_scores : row.by = r}

\* C37: in every interleaving of the scheduled and the manual sweep the
\* inserted counters of a runner's sweeps count exactly the rows that
\* runner created, so the counters of the two add up to the rows the
\* sweeps added to the table.
C37_InsertedIsCreated ==
    /\ \A r \in Runners : InsertedBy(r) = Cardinality(RowsBy(r))
    /\ InsertedBy("cron") + InsertedBy("manual")
          = Cardinality({row \in ada_scores : row.by \in Runners})

\* two sweeps that ran at the same time have returned; each created a row
\* and each met a row of the other
C37_Witness ==
    /\ Len(finished) = 2
    /\ finished[1].who # finished[2].who
    /\ ~finished[1].solo /\ ~finished[2].solo
    /\ \A k \in 1..2 :
          /\ finished[k].stats.inserted = 1
          /\ finished[k].stats.skippedExisting = 1
          /\ Cardinality(RowsBy(finished[k].who)) = 1

\* ------------------------------------------ properties of the scheduler's flag

\* C38: jobRunning is set exactly while the scheduled run is in progress,
\* however the run ends (summary, fatal error of the sweep, failed row
\* count), and a tick is skipped only while a scheduled run is in
\* progress.
C38_FlagTracksScheduledRun ==
    /\ [](jobRunning <=> run["cron"].pc # "idle")
    /\ [][(ticks' # ticks /\ consoleLog' = Append(consoleLog, "skip"))
             => run["cron"].pc # "idle" /\ run'["cron"].pc # "idle"]_vars

\* a scheduled run has failed and the next tick has started a run
C38_Witness ==
    /\ Len(consoleLog) = 3
    /\ consoleLog[1] = "started"
    /\ consoleLog[2] = "failed"
    /\ consoleLog[3] = "started"
    /\ jobRunning
    /\ run["cron"].pc # "idle"

\* ------------------------------------------ properties of the index load

\* C39 (as claimed): a sweep whose index query fails is over in that
\* step: it does not go on to its directory request, with an index that is
\* empty. (Stated for the sweep of the bulk server.)
C39_IndexFailureAborts ==
    [][(bulk.pc = "loadIndex" /\ events' = events + 1)
          => /\ bulk'.pc = "idle"
             /\ ada_scores' = ada_scores]_vars

\* ------------------------------------------ properties of the pool's clients

\* the program points of a batch update between pool.connect() and
\* client.release()
HoldsClient == bf.pc \in {"update", "begin", "legacyUpdate", "commit", "rollback"}

\* C40: a backfill holds one client of the pool while a batch update is in
\* progress and none outside it: the client acquired for a batch is
\* released once, whether the updates succeed or fail, and never twice.
C40_ClientReleased ==
    /\ [](bf.clients = IF HoldsClient THEN 1 ELSE 0)
    /\ [][/\ bf'.clients # bf.clients => bf'.clients \in {bf.clients - 1, bf.clients + 1}
          /\ bf'.clients > bf.clients => bf.pc = "connect"
          /\ bf'.clients < bf.clients => HoldsClient]_vars

\* an UPDATE of a legacy batch failed and the ROLLBACK failed as well: the
\* error is on its way to the outer catch and the client is released
C40_Witness ==
    /\ bf.variant = "legacy"
    /\ bf.failed
    /\ events = 1
    /\ bf.pc = "logFatal"
    /\ bf.clients = 0

====
